---- MODULE Spec2Model ----
(***************************************************************************)
(* Model of sql-agent-lab's backend and model lifecycle manager            *)
(* (src/src/sql_agent/utils/models/manager.py, class ModelManager).        *)
(*                                                                         *)
(* The state is the manager's fields.  Every public method is one action.  *)
(* External calls (which ollama, ollama pull, ollama run, the HTTP API,    *)
(* OllamaDiscovery.discover_models) are the environment: an action draws   *)
(* the outcome of each call it makes from the outcomes the call can have.  *)
(*                                                                         *)
(* The module holds further specifications over the same variables: Spec,  *)
(* SpecNoting, SpecFresh and SpecProbe are about the manager, SpecAgent is *)
(* about Text2SQLAgent (src/src/sql_agent/agno_agent.py), SpecPersistence  *)
(* is about StatePersistence (src/src/sql_agent/utils/persistence.py),     *)
(* as are SpecStore and SpecWrite; SpecReporter and SpecReporterFair are   *)
(* about StatusReporter (src/src/sql_agent/utils/status_reporter.py),      *)
(* SpecRace about a reporter tick beside the request path, SpecApp and     *)
(* SpecFront about the application (src/app/main.py), and SpecCallers      *)
(* about concurrent calls of the agent's mode and model switches.          *)
(* Each fixes the variables of the objects it is not about.                *)
(***************************************************************************)
EXTENDS Naturals, Sequences, FiniteSets, TLC

(* ---------------------------------------------------------------------- *)
(* Bounds                                                                 *)
(* ---------------------------------------------------------------------- *)

\* Longest catalog an endpoint serves.
MaxCatalog == 2

(* ---------------------------------------------------------------------- *)
(* Program constants                                                      *)
(* ---------------------------------------------------------------------- *)

\* "http://localhost:11434": the local endpoint.
LOCAL_HOST == "http://localhost:11434"

\* "http://192.168.1.37:11434": the default remote endpoint.
DEFAULT_REMOTE_HOST == "http://192.168.1.37:11434"

\* A remote endpoint configured by the caller (OLLAMA_HOST, or host=...).
CONFIGURED_HOST == "http://h:11434"

\* Python's None for an optional host argument.
None == "<None>"

\* No catalog was discovered yet (models = {} of __init__).
NoHost == "<none>"

\* ModelManagerConfig.default_model_id.
DEFAULT_MODEL_ID == "qwen2.5-coder:1.5b"

\* ModelManagerConfig.__post_init__: models known to have tensor issues.
DEFAULT_BLACKLIST == {"qwen2.5-coder:0.5b", "llama3.2:1b"}

\* get_best_model: models to try in order of preference.
fallback_models ==
    << "qwen2.5-coder:1.5b", "deepseek-r1:1.5b", "phi:latest",
       "gemma2:latest", "qwen2.5-coder:0.5b", "llama3.2:1b" >>

\* switch_to_local_mode: the small model pulled when nothing is served.
small_model == "qwen2.5-coder:1.5b"

(* ---------------------------------------------------------------------- *)
(* Input domains                                                          *)
(* ---------------------------------------------------------------------- *)

\* A model outside the fallback list.
CUSTOM_MODEL == "z"

\* The names an endpoint may serve: the first two fallbacks, a blacklisted
\* fallback and a model outside the fallback list.
ServedIds == {"qwen2.5-coder:1.5b", "deepseek-r1:1.5b", "qwen2.5-coder:0.5b", CUSTOM_MODEL}

\* The names test_model and pull_model are called with: the first fallback
\* and a model outside the fallback list.
CallIds == {"qwen2.5-coder:1.5b", CUSTOM_MODEL}

Range(s) == {s[i] : i \in DOMAIN s}

\* A catalog is a dict keyed by model name: an insertion-ordered sequence of
\* distinct names.
Catalogs ==
    {c \in UNION {[1..n -> ServedIds] : n \in 0..MaxCatalog} :
        \A i, j \in DOMAIN c : i # j => c[i] # c[j]}

\* discover_models returns a catalog (empty when the endpoint and the CLI
\* both fail) or raises (an answer it cannot decode).
DiscoverOutcomes ==
    {[raised |-> FALSE, models |-> c] : c \in Catalogs}
        \cup {[raised |-> TRUE, models |-> << >>]}

\* subprocess.run(["which", "ollama"]): found, not found, or raising
\* (timeout, no such command).
WhichOutcomes == {"found", "notfound", "raise"}

\* subprocess.run(["ollama", "pull", m]): exit code 0, another exit code, or
\* TimeoutExpired (any other exception takes the same handler).
PullOutcomes == {"ok", "nonzero", "timeout"}

\* The generation probe of test_model: the call completes (done) with an exit
\* code / HTTP status that is success or not (okcode) and an error text that
\* contains "tensor 'output.weight' not found" or not (sig); or it times
\* out; or it raises.
ProbeOutcomes ==
    {[kind |-> "done", okcode |-> o, sig |-> s] : o \in BOOLEAN, s \in BOOLEAN}
        \cup {[kind |-> k, okcode |-> FALSE, sig |-> FALSE] : k \in {"timeout", "error"}}

\* ModelManagerConfig values the manager is constructed with: every default,
\* or a configured remote host and a configured model.
Configs ==
    {[ollama_host |-> LOCAL_HOST, default_model_id |-> DEFAULT_MODEL_ID,
      model_blacklist |-> DEFAULT_BLACKLIST],
     [ollama_host |-> CONFIGURED_HOST, default_model_id |-> CUSTOM_MODEL,
      model_blacklist |-> DEFAULT_BLACKLIST]}

(* ---------------------------------------------------------------------- *)
(* State                                                                  *)
(* ---------------------------------------------------------------------- *)

VARIABLES
    using_local_ollama,   \* ModelManager.using_local_ollama
    ollama_mode,          \* ModelManager.ollama_mode: "local" or "remote"
    ollama_host,          \* ModelManager.ollama_host
    models,               \* ModelManager.models: the catalog
    current_model_id,     \* ModelManager.current_model_id
    ollama_available,     \* ModelManager.ollama_available
    model_discovery,      \* ModelManager.model_discovery.ollama_host
    model_blacklist,      \* ModelManager.config.model_blacklist
    default_model_id,     \* ModelManager.config.default_model_id
    models_host,          \* history: the endpoint models was discovered from
    op,                   \* history: the last call and the outcomes it drew
    ret,                  \* history: what the last call returned
    pulls,                \* history: the pulls the last call attempted
    seen_incompatible,    \* history: the models a caller that keeps track saw
                          \* test_model fail on with the incompatibility text
    agent,                \* the Text2SQLAgent object (agno_agent.py), a record
    persistence,          \* the StatePersistence object (persistence.py), a record
    state_file,           \* what is at StatePersistence.state_file on disk
    now,                  \* time.time(), in seconds
    last_write,           \* history: the last write of state_file that completed
    status_file,          \* what is at StatusReporter.status_file on disk
    reporter,             \* the StatusReporter object and its threads, a record
    callers,              \* the calls in progress on the request path
    app                   \* the globals of app/main.py, a record

vars ==
    << using_local_ollama, ollama_mode, ollama_host, models, current_model_id,
       ollama_available, model_discovery, model_blacklist, default_model_id,
       models_host, op, ret, pulls, seen_incompatible, agent,
       persistence, state_file, now, last_write,
       status_file, reporter, callers, app >>

\* The persistence object, its file and the clock.
Persisted == << persistence, state_file, now, last_write >>

\* The status reporter, its file, the calls in progress and the application.
Background == << status_file, reporter, callers, app >>

\* What is not a field of the manager nor the record of its last call.
NotManager == << seen_incompatible, agent, Persisted, Background >>

\* The manager object as a record.
Self ==
    [using_local_ollama |-> using_local_ollama,
     ollama_mode        |-> ollama_mode,
     ollama_host        |-> ollama_host,
     models             |-> models,
     current_model_id   |-> current_model_id,
     ollama_available   |-> ollama_available,
     model_discovery    |-> model_discovery,
     model_blacklist    |-> model_blacklist,
     default_model_id   |-> default_model_id,
     models_host        |-> models_host]

\* The manager object becomes s.
Becomes(s) ==
    /\ using_local_ollama' = s.using_local_ollama
    /\ ollama_mode'        = s.ollama_mode
    /\ ollama_host'        = s.ollama_host
    /\ models'             = s.models
    /\ current_model_id'   = s.current_model_id
    /\ ollama_available'   = s.ollama_available
    /\ model_discovery'    = s.model_discovery
    /\ model_blacklist'    = s.model_blacklist
    /\ default_model_id'   = s.default_model_id
    /\ models_host'        = s.models_host

\* A call's record: its name, its argument, and the probe outcome it drew.
Call(name, arg) ==
    [name |-> name, arg |-> arg, probe |-> "none", okcode |-> FALSE, sig |-> FALSE]

\* No call is in progress or waiting to be observed.
NoCall == Call("idle", None)

Idle == op = NoCall

\* A return value: the bool (ok), or the (model_id, is_fallback) pair, or
\* an exception that reaches the caller (raised).
Returned(ok) ==
    [ok |-> ok, model_id |-> "", is_fallback |-> FALSE, error |-> "", raised |-> FALSE]

\* No StatusReporter was constructed, nothing is in progress, and no
\* application runs.
NoBackground ==
    /\ status_file = None
    /\ reporter = None
    /\ callers = << >>
    /\ app = None

\* No StatePersistence object was constructed.
NoPersistence ==
    /\ persistence = None
    /\ state_file = None
    /\ now = 0
    /\ last_write = None

(* ---------------------------------------------------------------------- *)
(* Construction                                                           *)
(* ---------------------------------------------------------------------- *)

\* _try_remote_ollama: remote mode on the configured host; the catalog is
\* whatever discovery returns, and the backend counts as available unless
\* discovery raises.
TryRemoteOllamaResult(s, d) ==
    LET r == [s EXCEPT !.using_local_ollama = FALSE,
                       !.ollama_mode = "remote",
                       !.model_discovery = s.ollama_host]
    IN  IF d.raised
        THEN [r EXCEPT !.ollama_available = FALSE]
        ELSE [r EXCEPT !.models = d.models,
                       !.models_host = s.ollama_host,
                       !.ollama_available = TRUE]

\* check_ollama_availability: local first when the binary is found, else
\* remote.
CheckOllamaAvailabilityResult(s, w, d) ==
    IF w = "found"
    THEN LET r == [s EXCEPT !.using_local_ollama = TRUE,
                            !.ollama_mode = "local",
                            !.ollama_host = LOCAL_HOST,
                            !.model_discovery = LOCAL_HOST]
         IN  IF d.raised
             THEN [r EXCEPT !.ollama_available = FALSE]
             ELSE [r EXCEPT !.models = d.models,
                            !.models_host = LOCAL_HOST,
                            !.ollama_available = (d.models # << >>)]
    ELSE TryRemoteOllamaResult(s, d)

\* ModelManager.__init__.
Construct(cfg, w, d) ==
    CheckOllamaAvailabilityResult(
        [using_local_ollama |-> FALSE,
         ollama_mode        |-> "remote",
         ollama_host        |-> cfg.ollama_host,
         models             |-> << >>,
         current_model_id   |-> cfg.default_model_id,
         ollama_available   |-> FALSE,
         model_discovery    |-> cfg.ollama_host,
         model_blacklist    |-> cfg.model_blacklist,
         default_model_id   |-> cfg.default_model_id,
         models_host        |-> NoHost],
        w, d)

Init ==
    \E cfg \in Configs, w \in WhichOutcomes, d \in DiscoverOutcomes :
        LET s == Construct(cfg, w, d)
        IN  /\ using_local_ollama = s.using_local_ollama
            /\ ollama_mode        = s.ollama_mode
            /\ ollama_host        = s.ollama_host
            /\ models             = s.models
            /\ current_model_id   = s.current_model_id
            /\ ollama_available   = s.ollama_available
            /\ model_discovery    = s.model_discovery
            /\ model_blacklist    = s.model_blacklist
            /\ default_model_id   = s.default_model_id
            /\ models_host        = s.models_host
            /\ op = Call("__init__", None)
            /\ ret = Returned(s.ollama_available)
            /\ pulls = << >>
            /\ seen_incompatible = {}
            /\ NoPersistence
            /\ NoBackground
            /\ agent = None

\* check_ollama_availability called on the constructed manager.
CheckOllamaAvailability ==
    /\ Idle
    /\ \E w \in WhichOutcomes :
       \E d \in DiscoverOutcomes :
           LET r == CheckOllamaAvailabilityResult(Self, w, d)
           IN  /\ Becomes(r)
               /\ op' = Call("check_ollama_availability", None)
               /\ ret' = Returned(r.ollama_available)
               /\ pulls' = << >>
               /\ UNCHANGED NotManager

(* ---------------------------------------------------------------------- *)
(* get_model_list                                                         *)
(* ---------------------------------------------------------------------- *)

\* get_model_list: refresh the catalog from the discovery object; a raising
\* discovery keeps the old catalog and clears ollama_available.
GetModelListResult(s, d) ==
    IF d.raised
    THEN [s EXCEPT !.ollama_available = FALSE]
    ELSE [s EXCEPT !.models = d.models,
                   !.models_host = s.model_discovery,
                   !.ollama_available = TRUE]

GetModelList ==
    /\ Idle
    /\ \E d \in DiscoverOutcomes :
           /\ Becomes(GetModelListResult(Self, d))
           /\ op' = Call("get_model_list", None)
           /\ ret' = Returned(TRUE)
           /\ pulls' = << >>
           /\ UNCHANGED NotManager

(* ---------------------------------------------------------------------- *)
(* pull_model                                                             *)
(* ---------------------------------------------------------------------- *)

\* is_model_blacklisted.
IsModelBlacklisted(s, model_id) == model_id \in s.model_blacklist

\* The record of one pull: the model, whether pull_model returned True, and
\* how the pull ended.
Pulled(model_id, p, d) ==
    [model_id |-> model_id,
     ok       |-> (p = "ok" /\ ~d.raised),
     how      |-> IF p = "ok" /\ d.raised THEN "refresh_raised" ELSE p]

\* A faulty pull_model without its try/except: a pull that times out, or a
\* refresh that raises, reaches the caller.
PullModelUncaught(s, model_id, p, d) ==
    IF ~s.using_local_ollama
    THEN [self |-> s, ok |-> FALSE, raised |-> FALSE, pulled |-> << >>]
    ELSE IF p = "ok" /\ ~d.raised
         THEN [self   |-> [s EXCEPT !.models = d.models,
                                    !.models_host = s.model_discovery],
               ok     |-> TRUE,
               raised |-> FALSE,
               pulled |-> << Pulled(model_id, p, d) >>]
         ELSE [self   |-> s,
               ok     |-> FALSE,
               raised |-> (p = "timeout" \/ (p = "ok" /\ d.raised)),
               pulled |-> << Pulled(model_id, p, d) >>]

\* A faulty pull_model without the remote-mode guard: it pulls and refreshes
\* whatever the mode.
PullModelAnyMode(s, model_id, p, d) ==
    IF p = "ok" /\ ~d.raised
    THEN [self   |-> [s EXCEPT !.models = d.models,
                               !.models_host = s.model_discovery],
          ok     |-> TRUE,
          raised |-> FALSE,
          pulled |-> << Pulled(model_id, p, d) >>]
    ELSE [self   |-> s,
          ok     |-> FALSE,
          raised |-> FALSE,
          pulled |-> << Pulled(model_id, p, d) >>]

\* pull_model: refused in remote mode; in local mode True exactly when the
\* pull exits 0 and the catalog refresh that follows does not raise.  Every
\* other outcome (exit code, timeout, exception) is caught, returns False and
\* leaves the manager as it was.  pull_model itself never raises.
PullModelResult(s, model_id, p, d) ==
    IF ~s.using_local_ollama
    THEN [self |-> s, ok |-> FALSE, raised |-> FALSE, pulled |-> << >>]
    ELSE IF p = "ok" /\ ~d.raised
         THEN [self   |-> [s EXCEPT !.models = d.models,
                                    !.models_host = s.model_discovery],
               ok     |-> TRUE,
               raised |-> FALSE,
               pulled |-> << Pulled(model_id, p, d) >>]
         ELSE [self   |-> s,
               ok     |-> FALSE,
               raised |-> FALSE,
               pulled |-> << Pulled(model_id, p, d) >>]

PullModel ==
    /\ Idle
    /\ \E model_id \in CallIds :
       \E p \in PullOutcomes :
       \E d \in (IF p = "ok" THEN DiscoverOutcomes ELSE {[raised |-> TRUE, models |-> << >>]}) :
           LET r == PullModelResult(Self, model_id, p, d)
           IN  /\ Becomes(r.self)
               /\ op' = Call("pull_model", model_id)
               /\ ret' = [Returned(r.ok) EXCEPT !.raised = r.raised]
               /\ pulls' = r.pulled
               /\ UNCHANGED NotManager

(* ---------------------------------------------------------------------- *)
(* test_model                                                             *)
(* ---------------------------------------------------------------------- *)

\* A faulty test_model that blacklists on any failed local probe, not only
\* on the tensor signature.
TestModelBlacklistsAnyFailure(s, model_id, pr) ==
    IF IsModelBlacklisted(s, model_id)
    THEN [self |-> s, ok |-> FALSE,
          error |-> "Model is blacklisted due to known compatibility issues"]
    ELSE IF pr.kind = "done" /\ pr.okcode /\ ~pr.sig
    THEN [self |-> s, ok |-> TRUE, error |-> ""]
    ELSE [self  |-> [s EXCEPT !.model_blacklist =
                                IF s.using_local_ollama THEN @ \cup {model_id} ELSE @],
          ok    |-> FALSE,
          error |-> "Model test failed"]

\* test_model: a blacklisted model fails without a probe.  In local mode the
\* probe is "ollama run": the tensor signature in its stderr blacklists the
\* model.  In remote mode the probe is POST /api/generate: any status other
\* than 200 is a failure, and the answer's text is not inspected.
TestModelResult(s, model_id, pr) ==
    IF IsModelBlacklisted(s, model_id)
    THEN [self |-> s, ok |-> FALSE,
          error |-> "Model is blacklisted due to known compatibility issues"]
    ELSE IF pr.kind = "timeout"
    THEN [self |-> s, ok |-> FALSE,
          error |-> IF s.using_local_ollama
                    THEN "Timeout waiting for model response"
                    ELSE "Error testing model"]
    ELSE IF pr.kind = "error"
    THEN [self |-> s, ok |-> FALSE, error |-> "Error testing model"]
    ELSE IF s.using_local_ollama
    THEN IF pr.sig
         THEN [self  |-> [s EXCEPT !.model_blacklist = @ \cup {model_id}],
               ok    |-> FALSE,
               error |-> "Tensor initialization error"]
         ELSE IF ~pr.okcode
         THEN [self |-> s, ok |-> FALSE, error |-> "Model test failed"]
         ELSE [self |-> s, ok |-> TRUE, error |-> ""]
    ELSE IF ~pr.okcode
         THEN [self |-> s, ok |-> FALSE, error |-> "API error"]
         ELSE [self |-> s, ok |-> TRUE, error |-> ""]

TestModel ==
    /\ Idle
    /\ \E model_id \in CallIds :
       \E pr \in (IF model_id \in model_blacklist
                  THEN {[kind |-> "none", okcode |-> FALSE, sig |-> FALSE]}
                  ELSE ProbeOutcomes) :
           LET r == TestModelResult(Self, model_id, pr)
           IN  /\ Becomes(r.self)
               /\ op' = [name |-> "test_model", arg |-> model_id,
                         probe |-> pr.kind, okcode |-> pr.okcode, sig |-> pr.sig]
               /\ ret' = [Returned(r.ok) EXCEPT !.error = r.error]
               /\ pulls' = << >>
               /\ UNCHANGED NotManager

(* ---------------------------------------------------------------------- *)
(* get_best_model                                                         *)
(* ---------------------------------------------------------------------- *)

\* What one acquisition of the fallback walk meets: the pull's outcome and
\* whether the catalog refresh after a pull that exits 0 raises.
AcquireOutcomes ==
    {[pull |-> p, refresh_raised |-> FALSE] : p \in PullOutcomes}
        \cup {[pull |-> "ok", refresh_raised |-> TRUE]}

\* The refresh pull_model runs after a pull: it raises, or it returns c.
RefreshOf(a, c) ==
    IF a.refresh_raised
    THEN [raised |-> TRUE, models |-> << >>]
    ELSE [raised |-> FALSE, models |-> c]

\* The outcome of the k-th acquisition of a walk whose first po.n
\* acquisitions fail the way po.fail and whose later ones succeed.
AttemptOutcome(po, k) ==
    IF k <= po.n THEN po.fail ELSE [pull |-> "ok", refresh_raised |-> FALSE]

\* The for loop of get_best_model from entry i on: skip a blacklisted entry,
\* return an entry of the catalog, in local mode pull an entry that is not
\* in the catalog and return it when pull_model returns True; after the
\* last entry return the current model anyway.
RECURSIVE FallbackWalk(_, _, _, _, _)
FallbackWalk(s, i, po, c, log) ==
    IF i > Len(fallback_models)
    THEN [self |-> s, model_id |-> s.current_model_id, is_fallback |-> TRUE,
          raised |-> FALSE, pulled |-> log]
    ELSE LET model_id == fallback_models[i]
         IN  IF IsModelBlacklisted(s, model_id)
             THEN FallbackWalk(s, i + 1, po, c, log)
             ELSE IF model_id \in Range(s.models)
             THEN [self |-> s, model_id |-> model_id, is_fallback |-> TRUE,
                   raised |-> FALSE, pulled |-> log]
             ELSE IF s.using_local_ollama
             THEN LET a == AttemptOutcome(po, Len(log) + 1)
                      r == PullModelResult(s, model_id, a.pull, RefreshOf(a, c))
                  IN  IF r.raised
                      THEN [self |-> r.self, model_id |-> "",
                            is_fallback |-> FALSE, raised |-> TRUE,
                            pulled |-> log \o r.pulled]
                      ELSE IF r.ok
                      THEN [self |-> r.self, model_id |-> model_id,
                            is_fallback |-> TRUE, raised |-> FALSE,
                            pulled |-> log \o r.pulled]
                      ELSE FallbackWalk(r.self, i + 1, po, c, log \o r.pulled)
             ELSE FallbackWalk(s, i + 1, po, c, log)

\* A faulty get_best_model that drops the preference for the current model
\* and always walks the fallback list.
GetBestModelAlwaysWalks(s, po, c) == FallbackWalk(s, 1, po, c, << >>)

\* A faulty get_best_model whose walk starts at the second fallback entry.
GetBestModelSkipsFirst(s, po, c) ==
    IF s.current_model_id \in Range(s.models)
       /\ ~IsModelBlacklisted(s, s.current_model_id)
    THEN [self |-> s, model_id |-> s.current_model_id, is_fallback |-> FALSE,
          raised |-> FALSE, pulled |-> << >>]
    ELSE FallbackWalk(s, 2, po, c, << >>)

\* A faulty get_best_model that, when the walk is exhausted, returns the
\* first entry of the fallback list instead of the current model.
GetBestModelExhaustedGivesFirst(s, po, c) ==
    IF s.current_model_id \in Range(s.models)
       /\ ~IsModelBlacklisted(s, s.current_model_id)
    THEN [self |-> s, model_id |-> s.current_model_id, is_fallback |-> FALSE,
          raised |-> FALSE, pulled |-> << >>]
    ELSE LET r == FallbackWalk(s, 1, po, c, << >>)
         IN  [r EXCEPT !.model_id =
                  IF @ \in Range(fallback_models) THEN @ ELSE fallback_models[1]]

\* get_best_model: the current model when it is in the catalog and not
\* blacklisted, else the result of the fallback walk.
GetBestModelResult(s, po, c) ==
    IF s.current_model_id \in Range(s.models)
       /\ ~IsModelBlacklisted(s, s.current_model_id)
    THEN [self |-> s, model_id |-> s.current_model_id, is_fallback |-> FALSE,
          raised |-> FALSE, pulled |-> << >>]
    ELSE FallbackWalk(s, 1, po, c, << >>)

\* The entries of the fallback list a call of get_best_model can come to
\* pull: none when the current model is accepted or in remote mode, else the
\* entries neither blacklisted nor in the catalog, up to the first entry the
\* walk returns from the catalog.
Attemptable(s) ==
    IF \/ ~s.using_local_ollama
       \/ (s.current_model_id \in Range(s.models)
           /\ s.current_model_id \notin s.model_blacklist)
    THEN {}
    ELSE {i \in DOMAIN fallback_models :
            /\ fallback_models[i] \notin s.model_blacklist
            /\ fallback_models[i] \notin Range(s.models)
            /\ \A j \in 1..(i - 1) :
                  \/ fallback_models[j] \in s.model_blacklist
                  \/ fallback_models[j] \notin Range(s.models)}

\* The ways an acquisition fails.
AcquireFailures == {a \in AcquireOutcomes : a.pull # "ok" \/ a.refresh_raised}

GetBestModel ==
    /\ Idle
    /\ LET k == Cardinality(Attemptable(Self))
       IN
       \E n \in 0..k :
       \E f \in (IF n = 0 THEN {[pull |-> "nonzero", refresh_raised |-> FALSE]}
                 ELSE AcquireFailures) :
       \E c \in (IF n < k THEN Catalogs ELSE {<< >>}) :
           LET r == GetBestModelResult(Self, [fail |-> f, n |-> n], c)
           IN  /\ Becomes(r.self)
               /\ op' = Call("get_best_model", None)
               /\ ret' = [Returned(~r.raised) EXCEPT !.model_id = r.model_id,
                                                      !.is_fallback = r.is_fallback,
                                                      !.raised = r.raised]
               /\ pulls' = r.pulled
               /\ UNCHANGED NotManager

(* ---------------------------------------------------------------------- *)
(* switch_to_local_mode                                                   *)
(* ---------------------------------------------------------------------- *)

\* A discovery that is not reached.
NoDiscovery == [raised |-> TRUE, models |-> << >>]

\* subprocess.Popen(["ollama", "serve"]): started, or raising.
PopenOutcomes == {"started", "raise"}

\* A faulty revert that puts ollama_mode back and leaves the flag
\* using_local_ollama set.
RevertLocalKeepsFlag(s, old) ==
    [s EXCEPT !.ollama_mode = old.ollama_mode,
              !.ollama_host = old.ollama_host,
              !.current_model_id = old.current_model_id]

\* "Revert to previous mode" of switch_to_local_mode: the mode flags, the
\* endpoint and the active model are put back; models and model_discovery
\* are not.
RevertLocal(s, old) ==
    [s EXCEPT !.using_local_ollama = FALSE,
              !.ollama_mode = old.ollama_mode,
              !.ollama_host = old.ollama_host,
              !.current_model_id = old.current_model_id]

\* The catalog switch_to_local_mode ends its discovery with: the first
\* discovery's when it serves something; when it serves nothing, "ollama
\* serve" is started and the second discovery's catalog is taken; a raising
\* discovery or Popen leaves the empty catalog.
LocalDiscovery(d1, po, d2) ==
    IF d1.raised THEN << >>
    ELSE IF d1.models # << >> THEN d1.models
    ELSE IF po = "raise" THEN << >>
    ELSE IF d2.raised THEN << >>
    ELSE d2.models

\* switch_to_local_mode.
SwitchToLocalModeResult(s, w, d1, po, d2, p, d3) ==
    IF s.using_local_ollama
    THEN [self |-> s, ok |-> TRUE, pulled |-> << >>]
    ELSE IF w # "found"
    THEN [self |-> s, ok |-> FALSE, pulled |-> << >>]
    ELSE
    LET old_model_id == s.current_model_id
        s1 == [s EXCEPT !.using_local_ollama = TRUE,
                        !.ollama_mode = "local",
                        !.ollama_host = LOCAL_HOST,
                        !.model_discovery = LOCAL_HOST,
                        !.models = LocalDiscovery(d1, po, d2),
                        !.models_host = LOCAL_HOST]
    IN  IF old_model_id \in Range(s1.models)
        THEN [self |-> [s1 EXCEPT !.ollama_available = TRUE], ok |-> TRUE,
              pulled |-> << >>]
        ELSE IF s1.models # << >>
        THEN [self |-> [s1 EXCEPT !.current_model_id = s1.models[1],
                                  !.ollama_available = TRUE],
              ok |-> TRUE, pulled |-> << >>]
        ELSE IF p = "ok" /\ ~d3.raised
        THEN [self |-> [s1 EXCEPT !.current_model_id = small_model,
                                  !.models = d3.models,
                                  !.ollama_available = TRUE],
              ok |-> TRUE,
              pulled |-> << Pulled(small_model, p, d3) >>]
        ELSE [self |-> RevertLocal(s1, s), ok |-> FALSE,
              pulled |-> << Pulled(small_model, p, d3) >>]

SwitchToLocalMode ==
    /\ Idle
    /\ \E w \in (IF using_local_ollama THEN {"nocall"} ELSE WhichOutcomes) :
       \E d1 \in (IF w = "found" THEN DiscoverOutcomes ELSE {NoDiscovery}) :
       \E po \in (IF w = "found" /\ ~d1.raised /\ d1.models = << >>
                  THEN PopenOutcomes ELSE {"nocall"}) :
       \E d2 \in (IF po = "started" THEN DiscoverOutcomes ELSE {NoDiscovery}) :
       \E p \in (IF w = "found" /\ LocalDiscovery(d1, po, d2) = << >>
                 THEN PullOutcomes ELSE {"nocall"}) :
       \E d3 \in (IF p = "ok" THEN DiscoverOutcomes ELSE {NoDiscovery}) :
           LET r == SwitchToLocalModeResult(Self, w, d1, po, d2, p, d3)
           IN  /\ Becomes(r.self)
               /\ op' = Call("switch_to_local_mode", None)
               /\ ret' = Returned(r.ok)
               /\ pulls' = r.pulled
               /\ UNCHANGED NotManager

(* ---------------------------------------------------------------------- *)
(* switch_to_remote_mode                                                  *)
(* ---------------------------------------------------------------------- *)

\* The host arguments switch_to_remote_mode is called with.
HostArgs == {None, CONFIGURED_HOST}

\* Python truthiness of an optional host string.
Truthy(host) == host # None /\ host # ""

\* The endpoint switch_to_remote_mode switches to: the host given, else the
\* default remote host when the manager's host is empty or the local one,
\* else the manager's host.
RemoteHost(s, host) ==
    IF Truthy(host) THEN host
    ELSE IF s.ollama_host = "" \/ s.ollama_host = LOCAL_HOST
    THEN DEFAULT_REMOTE_HOST
    ELSE s.ollama_host

\* A faulty switch_to_remote_mode without the "already in remote mode"
\* guard: it probes the endpoint again whatever the mode.
SwitchToRemoteModeAlwaysProbes(s, host, d) ==
    LET old_model_id == s.current_model_id
        s1 == [s EXCEPT !.using_local_ollama = FALSE,
                        !.ollama_mode = "remote",
                        !.ollama_host = RemoteHost(s, host),
                        !.model_discovery = RemoteHost(s, host),
                        !.models = IF d.raised THEN << >> ELSE d.models,
                        !.models_host = RemoteHost(s, host),
                        !.ollama_available = (~d.raised /\ d.models # << >>)]
    IN  IF ~s1.ollama_available \/ old_model_id \notin Range(s1.models)
        THEN IF s1.models # << >>
             THEN [self |-> [s1 EXCEPT !.current_model_id = s1.models[1]],
                   ok |-> s1.ollama_available]
             ELSE [self |-> [s1 EXCEPT !.current_model_id = s.default_model_id],
                   ok |-> s1.ollama_available]
        ELSE [self |-> [s1 EXCEPT !.current_model_id = old_model_id],
              ok |-> s1.ollama_available]

\* switch_to_remote_mode: returns ollama_available, which is whether the
\* discovery of the new endpoint served a model.
SwitchToRemoteModeResult(s, host, d) ==
    IF ~s.using_local_ollama /\ host = None
    THEN [self |-> s, ok |-> TRUE]
    ELSE
    LET old_model_id == s.current_model_id
        s1 == [s EXCEPT !.using_local_ollama = FALSE,
                        !.ollama_mode = "remote",
                        !.ollama_host = RemoteHost(s, host),
                        !.model_discovery = RemoteHost(s, host),
                        !.models = IF d.raised THEN << >> ELSE d.models,
                        !.models_host = RemoteHost(s, host),
                        !.ollama_available = (~d.raised /\ d.models # << >>)]
    IN  IF ~s1.ollama_available \/ old_model_id \notin Range(s1.models)
        THEN IF s1.models # << >>
             THEN [self |-> [s1 EXCEPT !.current_model_id = s1.models[1]],
                   ok |-> s1.ollama_available]
             ELSE [self |-> [s1 EXCEPT !.current_model_id = s.default_model_id],
                   ok |-> s1.ollama_available]
        ELSE [self |-> [s1 EXCEPT !.current_model_id = old_model_id],
              ok |-> s1.ollama_available]

SwitchToRemoteMode ==
    /\ Idle
    /\ \E host \in HostArgs :
       \E d \in (IF ~using_local_ollama /\ host = None
                 THEN {NoDiscovery} ELSE DiscoverOutcomes) :
           LET r == SwitchToRemoteModeResult(Self, host, d)
           IN  /\ Becomes(r.self)
               /\ op' = Call("switch_to_remote_mode", host)
               /\ ret' = Returned(r.ok)
               /\ pulls' = << >>
               /\ UNCHANGED NotManager

\* The caller has taken the returned value: the record of the call is
\* dropped and the manager is ready for the next call.
Return ==
    /\ ~Idle
    /\ op' = NoCall
    /\ ret' = Returned(TRUE)
    /\ pulls' = << >>
    /\ UNCHANGED NotManager
    /\ UNCHANGED << using_local_ollama, ollama_mode, ollama_host, models,
                    current_model_id, ollama_available, model_discovery,
                    model_blacklist, default_model_id, models_host >>

Next ==
    \/ Return
    \/ CheckOllamaAvailability
    \/ GetModelList
    \/ PullModel
    \/ TestModel
    \/ GetBestModel
    \/ SwitchToLocalMode
    \/ SwitchToRemoteMode

Spec == Init /\ [][Next]_vars

(* ---------------------------------------------------------------------- *)
(* A caller that keeps track of test_model's incompatibility failures     *)
(* ---------------------------------------------------------------------- *)

\* test_model(x) has just returned a failure whose error text holds the
\* incompatibility signature: "Tensor initialization error" in local mode,
\* "API error: " followed by the answer's text in remote mode.
ReturnedIncompatible(x) ==
    /\ op.name = "test_model"
    /\ op.arg = x
    /\ op.probe = "done"
    /\ op.sig
    /\ ~ret.ok

\* The caller takes the returned value and notes the model when the value
\* is an incompatibility failure of test_model.
ReturnNoting ==
    /\ ~Idle
    /\ op' = NoCall
    /\ ret' = Returned(TRUE)
    /\ pulls' = << >>
    /\ seen_incompatible' =
          IF ReturnedIncompatible(op.arg)
          THEN seen_incompatible \cup {op.arg}
          ELSE seen_incompatible
    /\ UNCHANGED << agent, Persisted,
                    Background >>
    /\ UNCHANGED << using_local_ollama, ollama_mode, ollama_host, models,
                    current_model_id, ollama_available, model_discovery,
                    model_blacklist, default_model_id, models_host >>

NextNoting ==
    \/ ReturnNoting
    \/ CheckOllamaAvailability
    \/ GetModelList
    \/ PullModel
    \/ TestModel
    \/ GetBestModel
    \/ SwitchToLocalMode
    \/ SwitchToRemoteMode

SpecNoting == Init /\ [][NextNoting]_vars

(* ---------------------------------------------------------------------- *)
(* A fresh manager that resolves its model                                *)
(* ---------------------------------------------------------------------- *)

\* Names an endpoint may serve that are neither in the fallback list nor a
\* configured model.
OtherIds == {"a", "b"}

\* The catalogs over the names ids.
CatalogsOver(ids) ==
    {c \in UNION {[1..n -> ids] : n \in 0..MaxCatalog} :
        \A i, j \in DOMAIN c : i # j => c[i] # c[j]}

\* What the discovery of construction returns when the endpoint may also
\* serve the other names.
FreshDiscoverOutcomes ==
    {[raised |-> FALSE, models |-> c] : c \in CatalogsOver(ServedIds \cup OtherIds)}
        \cup {[raised |-> TRUE, models |-> << >>]}

\* The manager object is s.
Is(s) ==
    /\ using_local_ollama = s.using_local_ollama
    /\ ollama_mode        = s.ollama_mode
    /\ ollama_host        = s.ollama_host
    /\ models             = s.models
    /\ current_model_id   = s.current_model_id
    /\ ollama_available   = s.ollama_available
    /\ model_discovery    = s.model_discovery
    /\ model_blacklist    = s.model_blacklist
    /\ default_model_id   = s.default_model_id
    /\ models_host        = s.models_host

\* ModelManager.__init__ against such endpoints.
InitFresh ==
    \E cfg \in Configs, w \in WhichOutcomes, d \in FreshDiscoverOutcomes :
        /\ Is(Construct(cfg, w, d))
        /\ op = Call("__init__", None)
        /\ ret = Returned(ollama_available)
        /\ pulls = << >>
        /\ seen_incompatible = {}
        /\ NoPersistence
        /\ NoBackground
        /\ agent = None

\* The constructed manager is asked for its best model.
NextFresh ==
    \/ Return
    \/ GetBestModel

SpecFresh == InitFresh /\ [][NextFresh]_vars

(* ---------------------------------------------------------------------- *)
(* Text2SQLAgent (agno_agent.py): construction and initialize_agent       *)
(* ---------------------------------------------------------------------- *)

\* Text2SQLAgent.model_id's default, and DEFAULT_MODEL of the application.
AGENT_DEFAULT_MODEL == "qwen2.5-coder:7b"

\* initialize_agent: the fallbacks tried when the handle cannot be built.
agent_fallback_models ==
    << "qwen2.5-coder:1.5b", "qwen2.5-coder:0.5b", "llama3:8b", "phi3:mini" >>

\* switch_to_remote_mode of the agent: "a common model name".
REMOTE_COMMON_MODEL == "qwen2.5-coder:7b"

\* The names an endpoint may serve to the agent.
AgentServedIds == {"qwen2.5-coder:7b", "qwen2.5-coder:1.5b", CUSTOM_MODEL}

AgentDiscoverOutcomes ==
    {[raised |-> FALSE, models |-> c] : c \in CatalogsOver(AgentServedIds)}
        \cup {[raised |-> TRUE, models |-> << >>]}

\* The arguments the application constructs the agent with.
AgentConfigs ==
    {[ollama_host |-> DEFAULT_REMOTE_HOST, model_id |-> m] :
        m \in {AGENT_DEFAULT_MODEL, CUSTOM_MODEL}}

\* Ollama(id=..., base_url=...): the model handle.
Handle(id, base_url) == [id |-> id, base_url |-> base_url]

\* The attribute is not set yet.
NoHandle == Handle(None, None)

\* The base_url a handle is built with in the agent's mode.
BaseUrl(a) == IF a.using_local_ollama THEN LOCAL_HOST ELSE a.ollama_host

\* What one call of initialize_agent meets: the pull of the current model
\* and the refresh after it, how many of its Ollama(...) constructions raise
\* (the first ctor_fail of them), and the outcome of the pulls of fallbacks.
InitializeOutcomes ==
    {[pull |-> p, refresh |-> d, ctor_fail |-> n, fb_pull |-> f] :
        p \in {"ok", "nonzero"},
        d \in {"grown", "raised"},
        n \in {0, 1, Len(agent_fallback_models) + 1},
        f \in {"ok", "nonzero"}}

\* initialize_agent, first part: in local mode with the backend available,
\* a current model that is not in the catalog is pulled, and the catalog is
\* refreshed after a pull that exits 0 (the refreshed catalog is the old
\* one grown by the pulled model); any exception is logged.
InitializePull(a, e) ==
    IF /\ a.using_local_ollama /\ a.ollama_available
       /\ a.current_model_id \notin Range(a.models)
       /\ e.pull = "ok" /\ e.refresh = "grown"
    THEN [a EXCEPT !.models = Append(a.models, a.current_model_id)]
    ELSE a

\* initialize_agent, the fallback loop from entry i on, after calls
\* constructions were tried: in local mode a fallback that is not in the
\* catalog is pulled first and skipped when the pull fails; the first
\* fallback whose handle is built becomes the current model.
RECURSIVE InitializeFallbacks(_, _, _, _)
InitializeFallbacks(a, i, calls, e) ==
    IF i > Len(agent_fallback_models)
    THEN a
    ELSE LET fallback == agent_fallback_models[i]
         IN  IF /\ a.using_local_ollama
                /\ fallback \notin Range(a.models)
                /\ e.fb_pull # "ok"
             THEN InitializeFallbacks(a, i + 1, calls, e)
             ELSE IF calls + 1 <= e.ctor_fail
             THEN InitializeFallbacks(a, i + 1, calls + 1, e)
             ELSE [a EXCEPT !.ollama_model = Handle(fallback, BaseUrl(a)),
                            !.current_model_id = fallback]

\* initialize_agent: builds the handle for the current model, else for the
\* first fallback that can be built; raises only when the agent has no
\* handle at all.
InitializeAgentResult(a, e) ==
    LET a1 == InitializePull(a, e)
        a2 == IF e.ctor_fail = 0
              THEN [a1 EXCEPT !.ollama_model =
                                 Handle(a1.current_model_id, BaseUrl(a1))]
              ELSE InitializeFallbacks(a1, 1, 1, e)
    IN  [self |-> a2, raised |-> (a2.ollama_model = NoHandle)]

\* Text2SQLAgent.__post_init__ up to initialize_agent.
AgentConstruct(cfg, w, d, e) ==
    LET a0 == [using_local_ollama |-> FALSE,
               ollama_mode        |-> "remote",
               ollama_host        |-> cfg.ollama_host,
               models             |-> << >>,
               models_host        |-> NoHost,
               current_model_id   |-> cfg.model_id,
               ollama_available   |-> FALSE,
               model_discovery    |-> cfg.ollama_host,
               ollama_model       |-> NoHandle,
               text2sql_agent     |-> NoHandle]
    IN  InitializeAgentResult(CheckOllamaAvailabilityResult(a0, w, d), e)

\* No ModelManager object: the application constructs none.
NoManager ==
    [using_local_ollama |-> FALSE,
     ollama_mode        |-> "remote",
     ollama_host        |-> None,
     models             |-> << >>,
     current_model_id   |-> None,
     ollama_available   |-> FALSE,
     model_discovery    |-> None,
     model_blacklist    |-> {},
     default_model_id   |-> None,
     models_host        |-> NoHost]

\* The agent after a construction that did not raise: update_db_connection
\* builds text2sql_agent around the handle.
InitAgent ==
    \E cfg \in AgentConfigs, w \in WhichOutcomes, d \in AgentDiscoverOutcomes :
    \E e \in InitializeOutcomes :
        LET r == AgentConstruct(cfg, w, d, e)
        IN  /\ ~r.raised
            /\ agent = [r.self EXCEPT !.text2sql_agent = r.self.ollama_model]
            /\ Is(NoManager)
            /\ op = Call("__post_init__", None)
            /\ ret = Returned(TRUE)
            /\ pulls = << >>
            /\ seen_incompatible = {}
            /\ NoPersistence
            /\ NoBackground

(* ---------------------------------------------------------------------- *)
(* Text2SQLAgent: mode switches                                           *)
(* ---------------------------------------------------------------------- *)

\* switch_to_local_mode of the agent: the discovery, model choice, pull and
\* revert of the manager's method, then initialize_agent; ollama_available
\* is left as it was.
AgentSwitchToLocalModeResult(a, w, d1, po, d2, p, d3, e) ==
    IF a.using_local_ollama
    THEN [self |-> a, ok |-> TRUE]
    ELSE IF w # "found"
    THEN [self |-> a, ok |-> FALSE]
    ELSE
    LET old_model_id == a.current_model_id
        a1 == [a EXCEPT !.using_local_ollama = TRUE,
                        !.ollama_mode = "local",
                        !.ollama_host = LOCAL_HOST,
                        !.model_discovery = LOCAL_HOST,
                        !.models = LocalDiscovery(d1, po, d2),
                        !.models_host = LOCAL_HOST]
        a2 == IF old_model_id \in Range(a1.models)
              THEN a1
              ELSE IF a1.models # << >>
              THEN [a1 EXCEPT !.current_model_id = a1.models[1]]
              ELSE [a1 EXCEPT !.current_model_id = small_model,
                              !.models = d3.models]
        r == InitializeAgentResult(a2, e)
    IN  IF /\ old_model_id \notin Range(a1.models)
           /\ a1.models = << >>
           /\ ~(p = "ok" /\ ~d3.raised)
        THEN [self |-> RevertLocal(a1, a), ok |-> FALSE]
        ELSE IF r.raised
        THEN [self |-> RevertLocal(r.self, a), ok |-> FALSE]
        ELSE [self |-> r.self, ok |-> TRUE]

\* The endpoint the agent switches to: the default remote host when its host
\* is empty or the local one, else its host.
AgentRemoteHost(a) ==
    IF ~Truthy(a.ollama_host) \/ a.ollama_host = LOCAL_HOST
    THEN DEFAULT_REMOTE_HOST
    ELSE a.ollama_host

\* switch_to_remote_mode of the agent: no host argument; the model is the
\* old one when the new catalog serves it, else the catalog's first entry,
\* else the common model name; then initialize_agent.  It returns True
\* unless initialize_agent raises.
AgentSwitchToRemoteModeResult(a, d, e) ==
    IF ~a.using_local_ollama
    THEN [self |-> a, ok |-> TRUE]
    ELSE
    LET old_model_id == a.current_model_id
        a1 == [a EXCEPT !.using_local_ollama = FALSE,
                        !.ollama_mode = "remote",
                        !.ollama_host = AgentRemoteHost(a),
                        !.model_discovery = AgentRemoteHost(a),
                        !.models = IF d.raised THEN << >> ELSE d.models,
                        !.models_host = AgentRemoteHost(a),
                        !.ollama_available = (~d.raised /\ d.models # << >>)]
        a2 == IF ~a1.ollama_available \/ old_model_id \notin Range(a1.models)
              THEN IF a1.models # << >>
                   THEN [a1 EXCEPT !.current_model_id = a1.models[1]]
                   ELSE [a1 EXCEPT !.current_model_id = REMOTE_COMMON_MODEL]
              ELSE a1
        r == InitializeAgentResult(a2, e)
    IN  IF r.raised
        THEN [self |-> [r.self EXCEPT !.using_local_ollama = a.using_local_ollama,
                                      !.ollama_mode = a.ollama_mode,
                                      !.current_model_id = old_model_id],
              ok |-> FALSE]
        ELSE [self |-> r.self, ok |-> TRUE]

(* ---------------------------------------------------------------------- *)
(* Text2SQLAgent: set_active_model                                        *)
(* ---------------------------------------------------------------------- *)

\* The names set_active_model is called with.
ModelNames == {"local", "REMOTE", "qwen2.5-coder:1.5b", CUSTOM_MODEL}

\* str.lower() on those names.
Lower(model_name) ==
    IF model_name = "REMOTE" THEN "remote" ELSE model_name

\* model_discovery.get_model_details for a name that is not in the catalog:
\* a ModelInfo (found) or None.
DetailsOutcomes == {"found", "none"}

\* Where the re-initialisation of set_active_model raises: nowhere, in
\* Ollama(...), in get_database_schema, or in Agent(...).
ReinitOutcomes == {"none", "handle", "schema", "agent"}

\* Ollama(id=old_model_id, ...) of the revert: built, or raising.
RevertOutcomes == {"ok", "raise"}

\* set_active_model for a model name that is not a mode: False when the
\* model is neither known nor (in local mode) pulled; else the model id is
\* swapped and the handle and the agent are rebuilt; when that raises the
\* old id is put back and a handle for it is built, unless that raises too.
SetActiveModelResult(a, model_name, show, p, d, fail, revert) ==
    LET old_model_id == a.current_model_id
        known  == model_name \in Range(a.models) \/ show = "found"
        pulled == ~known /\ a.using_local_ollama /\ p = "ok" /\ d = "grown"
        a1     == IF pulled
                  THEN [a EXCEPT !.models = Append(a.models, model_name)]
                  ELSE a
        new    == Handle(model_name, BaseUrl(a1))
    IN  IF ~(known \/ pulled)
        THEN [self |-> a1, ok |-> FALSE]
        ELSE IF fail = "none"
        THEN [self |-> [a1 EXCEPT !.current_model_id = model_name,
                                  !.ollama_model = new,
                                  !.text2sql_agent = new],
              ok |-> TRUE]
        ELSE [self |-> [a1 EXCEPT !.current_model_id = old_model_id,
                                  !.ollama_model =
                                      IF revert = "ok"
                                      THEN Handle(old_model_id, BaseUrl(a1))
                                      ELSE IF fail = "handle" THEN @ ELSE new],
              ok |-> FALSE]

\* A method of the agent returns: the agent becomes r.self and the caller
\* gets r.ok.
AgentReturns(r, name, arg) ==
    /\ agent' = r.self
    /\ op' = Call(name, arg)
    /\ ret' = Returned(r.ok)
    /\ pulls' = << >>
    /\ UNCHANGED << using_local_ollama, ollama_mode, ollama_host, models,
                    current_model_id, ollama_available, model_discovery,
                    model_blacklist, default_model_id, models_host,
                    seen_incompatible, Persisted,
                    Background >>

\* The outcomes a call of initialize_agent can tell apart: none when it is
\* not reached; the pull of the current model only in local mode with the
\* backend available, the refresh only after a pull that exits 0, and the
\* pulls of fallbacks only in local mode after a construction raised.
InitializeOutcomesIn(reached, local, available) ==
    {e \in InitializeOutcomes :
        /\ ~reached => e.ctor_fail = 0
        /\ ~(reached /\ local /\ available) => e.pull = "nonzero"
        /\ e.pull = "nonzero" => e.refresh = "raised"
        /\ ~(local /\ e.ctor_fail > 0) => e.fb_pull = "nonzero"}

\* switch_to_local_mode runs, called as name(arg).
AgentSwitchesToLocal(name, arg) ==
    \E w \in (IF agent.using_local_ollama THEN {"nocall"} ELSE WhichOutcomes) :
    \E d1 \in (IF w = "found" THEN AgentDiscoverOutcomes ELSE {NoDiscovery}) :
    \E po \in (IF w = "found" /\ ~d1.raised /\ d1.models = << >>
               THEN PopenOutcomes ELSE {"nocall"}) :
    \E d2 \in (IF po = "started" THEN AgentDiscoverOutcomes ELSE {NoDiscovery}) :
    \E p \in (IF w = "found" /\ LocalDiscovery(d1, po, d2) = << >>
              THEN PullOutcomes ELSE {"nocall"}) :
    \E d3 \in (IF p = "ok" THEN AgentDiscoverOutcomes ELSE {NoDiscovery}) :
    \E e \in InitializeOutcomesIn(w = "found", TRUE, agent.ollama_available) :
        AgentReturns(AgentSwitchToLocalModeResult(agent, w, d1, po, d2, p, d3, e),
                     name, arg)

\* switch_to_remote_mode runs, called as name(arg).
AgentSwitchesToRemote(name, arg) ==
    \E d \in (IF agent.using_local_ollama
              THEN AgentDiscoverOutcomes ELSE {NoDiscovery}) :
    \E e \in InitializeOutcomesIn(agent.using_local_ollama, FALSE, FALSE) :
        AgentReturns(AgentSwitchToRemoteModeResult(agent, d, e), name, arg)

AgentSwitchToLocalMode ==
    /\ Idle
    /\ AgentSwitchesToLocal("switch_to_local_mode", None)

AgentSwitchToRemoteMode ==
    /\ Idle
    /\ AgentSwitchesToRemote("switch_to_remote_mode", None)

\* set_active_model: "local" and "remote" (in any case) are mode switches.
SetActiveModel ==
    /\ Idle
    /\ \E model_name \in ModelNames :
          IF Lower(model_name) = "local"
          THEN AgentSwitchesToLocal("set_active_model", model_name)
          ELSE IF Lower(model_name) = "remote"
          THEN AgentSwitchesToRemote("set_active_model", model_name)
          ELSE \E show \in (IF model_name \in Range(agent.models)
                             THEN {"nocall"} ELSE DetailsOutcomes) :
               \E p \in (IF show = "none" /\ agent.using_local_ollama
                         THEN PullOutcomes ELSE {"nocall"}) :
               \E d \in (IF p = "ok" THEN {"grown", "raised"} ELSE {"nocall"}) :
               \E fail \in ReinitOutcomes :
               \E revert \in (IF fail = "none" THEN {"nocall"} ELSE RevertOutcomes) :
                   AgentReturns(
                       SetActiveModelResult(agent, model_name, show, p, d,
                                            fail, revert),
                       "set_active_model", model_name)

\* The caller of the agent has taken the returned value.
AgentReturn ==
    /\ ~Idle
    /\ op' = NoCall
    /\ ret' = Returned(TRUE)
    /\ pulls' = << >>
    /\ UNCHANGED << using_local_ollama, ollama_mode, ollama_host, models,
                    current_model_id, ollama_available, model_discovery,
                    model_blacklist, default_model_id, models_host,
                    seen_incompatible, agent, Persisted,
                    Background >>

NextAgent ==
    \/ AgentReturn
    \/ AgentSwitchToLocalMode
    \/ AgentSwitchToRemoteMode
    \/ SetActiveModel

SpecAgent == InitAgent /\ [][NextAgent]_vars

(* ---------------------------------------------------------------------- *)
(* Discovery against an endpoint (discovery.py)                           *)
(* ---------------------------------------------------------------------- *)

\* What requests.get(<host>/api/tags) does: a 200 answer with the list of
\* models, a 200 answer whose body is not the expected object, another
\* status, or a RequestException (no connection, timeout).
ApiOutcomes == {"ok", "malformed", "status", "unreachable", "timeout"}

\* The answers with which the discovery of the endpoint failed.
FailedAnswers == {"malformed", "status", "unreachable", "timeout"}

\* What "ollama list" of the CLI fallback does: it lists models, or raises.
CliOutcomes == {"listed", "raise"}

\* OllamaDiscovery.discover_models: the models of a 200 answer; nothing for
\* another status; after a RequestException what "ollama list" lists, or
\* nothing when that raises. Only an exception that is not a
\* RequestException (from reading a malformed body) leaves the method.
DiscoverModels(api, served, cli, listed) ==
    IF api = "ok" THEN [raised |-> FALSE, models |-> served]
    ELSE IF api = "malformed" THEN [raised |-> TRUE, models |-> << >>]
    ELSE IF api = "status" THEN [raised |-> FALSE, models |-> << >>]
    ELSE IF cli = "listed" THEN [raised |-> FALSE, models |-> listed]
    ELSE [raised |-> FALSE, models |-> << >>]

\* The discoveries an endpoint and the CLI give rise to, with the answer of
\* the endpoint.
Discoveries ==
    { [api |-> api, d |-> DiscoverModels(api, served, cli, listed)] :
        api \in ApiOutcomes, served \in Catalogs,
        cli \in CliOutcomes, listed \in Catalogs }

\* A call's record with the answer the endpoint gave to its discovery.
Probed(name, api) == [Call(name, None) EXCEPT !.probe = api]

InitProbe ==
    \E cfg \in Configs, w \in WhichOutcomes, x \in Discoveries :
        LET s == Construct(cfg, w, x.d)
        IN  /\ Is(s)
            /\ op = Probed("__init__", x.api)
            /\ ret = Returned(s.ollama_available)
            /\ pulls = << >>
            /\ seen_incompatible = {}
            /\ NoPersistence
            /\ NoBackground
            /\ agent = None

\* check_ollama_availability, with the discovery spelled out.
ProbeOllamaAvailability ==
    /\ Idle
    /\ \E w \in WhichOutcomes, x \in Discoveries :
           LET r == CheckOllamaAvailabilityResult(Self, w, x.d)
           IN  /\ Becomes(r)
               /\ op' = Probed("check_ollama_availability", x.api)
               /\ ret' = Returned(r.ollama_available)
               /\ pulls' = << >>
               /\ UNCHANGED NotManager

\* get_model_list, with the discovery spelled out.
RefreshModelList ==
    /\ Idle
    /\ \E x \in Discoveries :
           /\ Becomes(GetModelListResult(Self, x.d))
           /\ op' = Probed("get_model_list", x.api)
           /\ ret' = Returned(TRUE)
           /\ pulls' = << >>
           /\ UNCHANGED NotManager

NextProbe ==
    \/ Return
    \/ ProbeOllamaAvailability
    \/ RefreshModelList

SpecProbe == InitProbe /\ [][NextProbe]_vars

(* ---------------------------------------------------------------------- *)
(* StatePersistence (persistence.py)                                      *)
(* ---------------------------------------------------------------------- *)

\* The clock stops here.
MaxTime == 7

\* time.time() when the object is constructed: seconds since the epoch, far
\* above every auto-save interval and above last_save_time's initial 0.
StartTime == 3

\* "version" of the default state.
STATE_VERSION == 1

\* "ui_port" of the default configuration.
DEFAULT_UI_PORT == 8046

\* The auto_save_interval the object is constructed with (0 to disable).
AutoSaveIntervals == {0, 2}

\* A dict without entries.
NoEntries == [k \in {} |-> None]

\* dict.update: d with the entries of u added or replaced.
Update(d, u) ==
    [k \in (DOMAIN d) \cup (DOMAIN u) |-> IF k \in DOMAIN u THEN u[k] ELSE d[k]]

\* "config" of the default state.
DefaultConfig == [ollama_host |-> LOCAL_HOST, ui_port |-> DEFAULT_UI_PORT]

\* The default state of __init__, constructed at time t.
DefaultState(t) ==
    [version       |-> STATE_VERSION,
     last_updated  |-> t,
     databases     |-> NoEntries,
     current_db    |-> None,
     models        |-> NoEntries,
     current_model |-> None,
     config        |-> DefaultConfig]

\* JSON's null.
JsonNull == "null"

\* The keys of the state that hold an Optional[str].
Nullable == {"current_db", "current_model"}

\* json.dump of a state: None is written as null; strings, numbers and
\* dicts with string keys are written as they are.
JsonDump(s) ==
    [k \in DOMAIN s |-> IF k \in Nullable /\ s[k] = None THEN JsonNull ELSE s[k]]

\* A faulty json.load that hands null on as the string it is written as.
JsonLoadKeepsNull(o) ==
    [k \in DOMAIN o |-> o[k]]

\* json.load of an object: null is read as None.
JsonLoad(o) ==
    [k \in DOMAIN o |-> IF k \in Nullable /\ o[k] = JsonNull THEN None ELSE o[k]]

\* A JSON object in the state file.
Object(data) == [kind |-> "object", data |-> data]

\* No state file.
Missing == [kind |-> "missing", data |-> NoEntries]

\* A state file json.load cannot read.
Corrupt == [kind |-> "corrupt", data |-> NoEntries]

\* The JSON objects a state file found at construction holds.
FileObjects ==
    {NoEntries,
     [current_db |-> "shop", current_model |-> JsonNull],
     [last_query |-> "q", version |-> STATE_VERSION],
     [config |-> [ollama_host |-> CONFIGURED_HOST]],
     [config |-> [ollama_host |-> CONFIGURED_HOST,
                  ui_port |-> DEFAULT_UI_PORT + 1,
                  ollama_mode |-> "remote"],
      current_model |-> CUSTOM_MODEL,
      last_updated |-> 1]}

\* The state files found at construction.
Files == {Missing, Corrupt} \cup {Object(data) : data \in FileObjects}

\* load_state: an existing, readable file is merged into the state with
\* dict.update; a missing file or one that cannot be read changes nothing.
LoadStateResult(p, f) ==
    IF f.kind = "object"
    THEN [p EXCEPT !.state = Update(p.state, JsonLoad(f.data))]
    ELSE p

\* StatePersistence.__init__ at time t with file f.
PersistenceConstruct(interval, f, t) ==
    LoadStateResult([state              |-> DefaultState(t),
                     last_save_time     |-> 0,
                     auto_save_interval |-> interval], f)

\* The record of a call of the persistence object: its name, the force
\* argument, and what became of the write ("nocall" when none was tried).
PersistenceCall(name, force, write) ==
    [name |-> name, force |-> force, write |-> write]

\* No write of this object has completed yet.
NeverWritten == [done |-> FALSE, at |-> 0]

InitPersistence ==
    \E interval \in AutoSaveIntervals, f \in Files :
        /\ persistence = PersistenceConstruct(interval, f, StartTime)
        /\ state_file = f
        /\ now = StartTime
        /\ last_write = NeverWritten
        /\ op = PersistenceCall("__init__", FALSE, "nocall")
        /\ ret = Returned(TRUE)
        /\ pulls = << >>
        /\ seen_incompatible = {}
        /\ agent = None
        /\ Is(NoManager)
        /\ NoBackground

\* What open(state_file, 'w') and json.dump do: the file is written, open
\* raises and the file is as it was, or the dump raises after open has
\* truncated the file.
WriteOutcomes == {"written", "open_raises", "dump_raises"}

\* save_state skips the write: not forced, auto-save on, and less than the
\* interval since last_save_time.
Debounced(p, t, force) ==
    /\ ~force
    /\ p.auto_save_interval > 0
    /\ t - p.last_save_time < p.auto_save_interval

\* A faulty save_state that counts a write that failed at open as a save:
\* last_save_time advances although nothing was written.
SaveStateCountsFailedWrite(p, f, t, force, w) ==
    IF Debounced(p, t, force)
    THEN [self |-> p, file |-> f, ok |-> FALSE, write |-> "nocall"]
    ELSE
    LET p1 == [p EXCEPT !.state = Update(p.state, [last_updated |-> t])]
    IN  IF w = "written"
        THEN [self |-> [p1 EXCEPT !.last_save_time = t],
              file |-> Object(JsonDump(p1.state)), ok |-> TRUE, write |-> w]
        ELSE IF w = "open_raises"
        THEN [self |-> [p1 EXCEPT !.last_save_time = t],
              file |-> f, ok |-> FALSE, write |-> w]
        ELSE [self |-> p1, file |-> Corrupt, ok |-> FALSE, write |-> w]

\* save_state at time t.
SaveStateResult(p, f, t, force, w) ==
    IF Debounced(p, t, force)
    THEN [self |-> p, file |-> f, ok |-> FALSE, write |-> "nocall"]
    ELSE
    LET p1 == [p EXCEPT !.state = Update(p.state, [last_updated |-> t])]
    IN  IF w = "written"
        THEN [self |-> [p1 EXCEPT !.last_save_time = t],
              file |-> Object(JsonDump(p1.state)), ok |-> TRUE, write |-> w]
        ELSE IF w = "open_raises"
        THEN [self |-> p1, file |-> f, ok |-> FALSE, write |-> w]
        ELSE [self |-> p1, file |-> Corrupt, ok |-> FALSE, write |-> w]

\* What is neither the persistence object, its file nor the call's record.
NotPersistence ==
    << using_local_ollama, ollama_mode, ollama_host, models, current_model_id,
       ollama_available, model_discovery, model_blacklist, default_model_id,
       models_host, pulls, seen_incompatible, agent, Background >>

\* The effect of a save_state that ended as r at the present time.
Saved(r) ==
    /\ persistence' = r.self
    /\ state_file' = r.file
    /\ last_write' = IF r.write = "written"
                     THEN [done |-> TRUE, at |-> now]
                     ELSE last_write
    /\ ret' = Returned(r.ok)
    /\ UNCHANGED now
    /\ UNCHANGED NotPersistence

SaveState ==
    \E force \in BOOLEAN :
    \E w \in (IF Debounced(persistence, now, force)
              THEN {"nocall"} ELSE WriteOutcomes) :
        LET r == SaveStateResult(persistence, state_file, now, force, w)
        IN  /\ Saved(r)
            /\ op' = PersistenceCall("save_state", force, r.write)

\* load_state called on the constructed object.
LoadState ==
    /\ persistence' = LoadStateResult(persistence, state_file)
    /\ op' = PersistenceCall("load_state", FALSE, "nocall")
    /\ ret' = Returned(TRUE)
    /\ UNCHANGED << state_file, now, last_write >>
    /\ UNCHANGED NotPersistence

\* The configurations the application passes to update_config.
ConfigUpdates ==
    {[ollama_mode |-> "local"],
     [ollama_host |-> DEFAULT_REMOTE_HOST, ui_port |-> DEFAULT_UI_PORT]}

\* update_config: the entries are put into state["config"], then
\* save_state().
UpdateConfigResult(p, f, t, config, w) ==
    SaveStateResult(
        [p EXCEPT !.state = Update(p.state,
                                   [config |-> Update(p.state.config, config)])],
        f, t, FALSE, w)

UpdateConfig ==
    \E config \in ConfigUpdates :
    \E w \in (IF Debounced(persistence, now, FALSE)
              THEN {"nocall"} ELSE WriteOutcomes) :
        LET r == UpdateConfigResult(persistence, state_file, now, config, w)
        IN  /\ Saved(r)
            /\ op' = PersistenceCall("update_config", FALSE, r.write)

\* A second passes.
Tick ==
    /\ now < MaxTime
    /\ now' = now + 1
    /\ UNCHANGED << persistence, state_file, last_write, op, ret >>
    /\ UNCHANGED NotPersistence

NextPersistence ==
    \/ SaveState
    \/ LoadState
    \/ UpdateConfig
    \/ Tick

SpecPersistence == InitPersistence /\ [][NextPersistence]_vars

(* ---------------------------------------------------------------------- *)
(* StatePersistence: the model and database sections                      *)
(* ---------------------------------------------------------------------- *)

\* A ModelInfo object of discovery.py.
ModelInfoOf(name) ==
    [name |-> name, size |-> "1.0 GB", modified |-> "", digest |-> "sha256",
     details |-> "details"]

\* A DatabaseInfo object of database/discovery.py.
DatabaseInfoOf(name) ==
    [name |-> name, path |-> "app/data/shop.db",
     url |-> "sqlite:///app/data/shop.db", tables |-> << "products" >>,
     column_info |-> << << "id", "INTEGER" >> >>]

\* The (models, current_model) the application passes to update_model_info:
\* the agent's catalog and its active model.
ModelInfoArgs ==
    {[models |-> NoEntries, current_model |-> AGENT_DEFAULT_MODEL],
     [models |-> (small_model :> ModelInfoOf(small_model)),
      current_model |-> small_model]}

\* The (databases, current_db) the application passes to
\* update_database_info.
DatabaseInfoArgs ==
    {[databases |-> ("shop" :> DatabaseInfoOf("shop")), current_db |-> "shop"]}

\* What update_model_info stores for the catalog: name, size, modified and
\* digest of each object.
SerializableModels(ms) ==
    [n \in DOMAIN ms |-> [name |-> n, size |-> ms[n].size,
                          modified |-> ms[n].modified, digest |-> ms[n].digest]]

\* What update_database_info stores: name, path, url and tables of each
\* object.
SerializableDbs(dbs) ==
    [n \in DOMAIN dbs |-> [name |-> n, path |-> dbs[n].path,
                           url |-> dbs[n].url, tables |-> dbs[n].tables]]

\* update_model_info: the two entries are assigned, then save_state().
UpdateModelInfoResult(p, f, t, a, w) ==
    SaveStateResult(
        [p EXCEPT !.state =
            Update(Update(p.state, [models |-> SerializableModels(a.models)]),
                   [current_model |-> a.current_model])],
        f, t, FALSE, w)

\* update_database_info: the two entries are assigned, then save_state().
UpdateDatabaseInfoResult(p, f, t, a, w) ==
    SaveStateResult(
        [p EXCEPT !.state =
            Update(Update(p.state, [databases |-> SerializableDbs(a.databases)]),
                   [current_db |-> a.current_db])],
        f, t, FALSE, w)

UpdateModelInfo ==
    \E a \in ModelInfoArgs :
    \E w \in (IF Debounced(persistence, now, FALSE)
              THEN {"nocall"} ELSE WriteOutcomes) :
        LET r == UpdateModelInfoResult(persistence, state_file, now, a, w)
        IN  /\ Saved(r)
            /\ op' = PersistenceCall("update_model_info", FALSE, r.write)

UpdateDatabaseInfo ==
    \E a \in DatabaseInfoArgs :
    \E w \in (IF Debounced(persistence, now, FALSE)
              THEN {"nocall"} ELSE WriteOutcomes) :
        LET r == UpdateDatabaseInfoResult(persistence, state_file, now, a, w)
        IN  /\ Saved(r)
            /\ op' = PersistenceCall("update_database_info", FALSE, r.write)

NextStore ==
    \/ SaveState
    \/ LoadState
    \/ UpdateConfig
    \/ UpdateModelInfo
    \/ UpdateDatabaseInfo

SpecStore == InitPersistence /\ [][NextStore]_vars

(* ---------------------------------------------------------------------- *)
(* save_state step by step, with a reader of the file                     *)
(* ---------------------------------------------------------------------- *)

\* The state file right after open(state_file, 'w'): truncated to nothing.
Empty == [kind |-> "empty", data |-> NoEntries]

\* The state file while json.dump has written a part of the document.
Partial == [kind |-> "partial", data |-> NoEntries]

\* A call in progress: its name and the statement it is at.
InProgress(name, pc) == [name |-> name, pc |-> pc]

\* The position of the one call in progress.
At(pc) == callers # << >> /\ callers[1].pc = pc

\* What is left alone by a step of save_state besides the variables named.
WriteFrame ==
    << using_local_ollama, ollama_mode, ollama_host, models, current_model_id,
       ollama_available, model_discovery, model_blacklist, default_model_id,
       models_host, pulls, seen_incompatible, agent, now, status_file,
       reporter, app >>

\* save_state up to the try block: the auto-save check, then the timestamp.
SaveStateBegin ==
    /\ callers = << >>
    /\ \E force \in BOOLEAN :
           IF Debounced(persistence, now, force)
           THEN /\ op' = PersistenceCall("save_state", force, "nocall")
                /\ ret' = Returned(FALSE)
                /\ UNCHANGED << persistence, callers >>
           ELSE /\ persistence' =
                       [persistence EXCEPT
                           !.state = Update(persistence.state,
                                            [last_updated |-> now])]
                /\ callers' = << InProgress("save_state", "open") >>
                /\ op' = PersistenceCall("save_state", force, "started")
                /\ UNCHANGED ret
    /\ UNCHANGED << state_file, last_write >>
    /\ UNCHANGED WriteFrame

\* open(self.state_file, 'w'): the file is truncated, or open raises and
\* save_state returns False.
SaveStateOpen ==
    /\ At("open")
    /\ \/ /\ state_file' = Empty
          /\ callers' = << InProgress("save_state", "dump") >>
          /\ UNCHANGED << op, ret >>
       \/ /\ callers' = << >>
          /\ op' = [op EXCEPT !.write = "open_raises"]
          /\ ret' = Returned(FALSE)
          /\ UNCHANGED state_file
    /\ UNCHANGED << persistence, last_write >>
    /\ UNCHANGED WriteFrame

\* json.dump(self.state, f): a part of the document reaches the file; the
\* dump goes on, or raises and save_state returns False.
SaveStateDump ==
    /\ At("dump")
    /\ state_file' = Partial
    /\ \/ /\ callers' = << InProgress("save_state", "close") >>
          /\ UNCHANGED << op, ret >>
       \/ /\ callers' = << >>
          /\ op' = [op EXCEPT !.write = "dump_raises"]
          /\ ret' = Returned(FALSE)
    /\ UNCHANGED << persistence, last_write >>
    /\ UNCHANGED WriteFrame

\* The with block ends: the document is in the file, last_save_time is
\* set, save_state returns True.
SaveStateClose ==
    /\ At("close")
    /\ state_file' = Object(JsonDump(persistence.state))
    /\ persistence' = [persistence EXCEPT !.last_save_time = now]
    /\ last_write' = [done |-> TRUE, at |-> now]
    /\ callers' = << >>
    /\ op' = [op EXCEPT !.write = "written"]
    /\ ret' = Returned(TRUE)
    /\ UNCHANGED WriteFrame

\* Another process reads the state file.
ReadStateFile ==
    /\ op' = PersistenceCall("read", FALSE, state_file.kind)
    /\ UNCHANGED << persistence, state_file, last_write, callers, ret >>
    /\ UNCHANGED WriteFrame

\* The process dies and is started again: a fresh StatePersistence loads
\* the file as it is.
CrashRestart ==
    /\ persistence' =
           PersistenceConstruct(persistence.auto_save_interval, state_file, now)
    /\ callers' = << >>
    /\ last_write' = NeverWritten
    /\ op' = PersistenceCall("__init__", FALSE, state_file.kind)
    /\ ret' = Returned(TRUE)
    /\ UNCHANGED state_file
    /\ UNCHANGED WriteFrame

NextWrite ==
    \/ SaveStateBegin
    \/ SaveStateOpen
    \/ SaveStateDump
    \/ SaveStateClose
    \/ ReadStateFile
    \/ CrashRestart

SpecWrite == InitPersistence /\ [][NextWrite]_vars

(* ---------------------------------------------------------------------- *)
(* StatusReporter (status_reporter.py): start, stop and the loop          *)
(* ---------------------------------------------------------------------- *)

\* Most reporter threads ever started.
MaxThreads == 2

\* The timeout of reporter_thread.join in stop(), in seconds.
JOIN_TIMEOUT == 3

\* The auto_save_interval the reporter is constructed with, in seconds.
ReporterIntervals == {1, 5}

\* What dump_status_summary prints of a state: the timestamp, the two
\* configuration entries it looks up (a missing one prints as Unknown), the
\* current database and model, and the names of the databases and models.
Summary(state) ==
    [last_updated  |-> state["last_updated"],
     config        |-> [k \in {"ollama_host", "ui_port"} \cap DOMAIN state["config"]
                            |-> state["config"][k]],
     current_db    |-> state["current_db"],
     databases     |-> DOMAIN state["databases"],
     current_model |-> state["current_model"],
     models        |-> DOMAIN state["models"]]

\* The recovery instructions: the /db and /model commands of the state.
Recovery(state) ==
    [current_db |-> state["current_db"], current_model |-> state["current_model"]]

\* What the status callback does: it returns the information, or raises.
CallbackOutcomes == {"ok", "raise"}

\* The supplementary section: nothing without a callback, the callback's
\* items, or the text of the error it raised.
AdditionalInfo(has_callback, c) ==
    IF ~has_callback THEN ""
    ELSE IF c = "ok" THEN "## Additional Information <items>"
    ELSE "## Additional Information Error getting additional status info: <e>"

\* A status file with a text in it.
StatusText(summary, additional, recovery) ==
    [kind |-> "text", summary |-> summary, additional |-> additional,
     recovery |-> recovery]

\* No status file.
NoStatusFile ==
    [kind |-> "missing", summary |-> NoEntries, additional |-> "",
     recovery |-> NoEntries]

\* A faulty _update_status_file in which an exception of the callback
\* reaches the outer handler: nothing is written.
UpdateStatusFileAbortsOnCallback(state, sf, has_callback, c, w) ==
    IF w = "raise" \/ (has_callback /\ c = "raise") THEN sf
    ELSE StatusText(Summary(state), AdditionalInfo(has_callback, c),
                    Recovery(state))

\* _update_status_file: the status file it leaves. The text is the
\* summary, the supplementary section and the recovery instructions; when
\* opening the file raises, the file is as it was.
UpdateStatusFileResult(state, sf, has_callback, c, w) ==
    IF w = "raise" THEN sf
    ELSE StatusText(Summary(state), AdditionalInfo(has_callback, c),
                    Recovery(state))

\* A reporter thread: the statement of _reporter_loop it is at, and the
\* seconds its sleep has left.
Thread(pc, left) == [pc |-> pc, left |-> left]

\* A faulty loop that ends after a tick in which something raised.
AfterTickEndsOnFailure(failed) == IF failed THEN "done" ELSE "sleep"

\* Where the loop goes after _update_status_file: to time.sleep, whatever
\* was raised and caught inside the update.
AfterTick(failed) == "sleep"

\* The seconds _reporter_loop sleeps in its own exception handler.
ERROR_SLEEP == 10

\* Whether _update_status_file raises into the loop: never, its whole body
\* is inside try/except Exception, which logs and returns.
UpdateStatusFileRaises(c, w) == FALSE

\* The sleep of the loop after the update: time.sleep(10) in the loop's
\* handler when the update raised, else time.sleep(auto_save_interval).
SleepAfter(raised, interval) == IF raised THEN ERROR_SLEEP ELSE interval

\* The record of a tick: the thread, what the callback and the write did,
\* a bit that alternates from tick to tick, and whether the tick before it
\* had a failure.
TickRecord(i, c, w, seq, after_failed) ==
    [name |-> "tick", thread |-> i, callback |-> c, write |-> w, seq |-> seq,
     after_failed |-> after_failed]

\* The record of a call of start or stop.
ReporterCall(name) ==
    [name |-> name, thread |-> 0, callback |-> "nocall", write |-> "nocall",
     seq |-> op.seq, after_failed |-> FALSE]

\* Something raised in the tick recorded.
Failed(o) == o.name = "tick" /\ (o.callback = "raise" \/ o.write = "raise")

\* The threads that have not returned from _reporter_loop.
Alive == {i \in DOMAIN reporter.threads : reporter.threads[i].pc # "done"}

\* reporter_thread is set and is_alive().
ThreadAlive ==
    reporter.reporter_thread # 0 /\ reporter.reporter_thread \in Alive

\* The state files the reporter's StatePersistence finds: none, or one with
\* a configuration.
ReporterFiles ==
    {Missing, Object([config |-> [ollama_host |-> CONFIGURED_HOST]])}

InitReporter ==
    \E interval \in ReporterIntervals, f \in ReporterFiles, cb \in BOOLEAN :
        /\ persistence = PersistenceConstruct(interval, f, StartTime)
        /\ state_file = f
        /\ now = StartTime
        /\ last_write = NeverWritten
        /\ status_file = NoStatusFile
        /\ reporter = [running            |-> FALSE,
                       auto_save_interval |-> interval,
                       status_callback    |-> cb,
                       reporter_thread    |-> 0,
                       threads            |-> << >>,
                       main               |-> Thread("idle", 0),
                       stop_returned      |-> FALSE,
                       wrote_after_stop   |-> FALSE]
        /\ callers = << >>
        /\ app = None
        /\ op = [name |-> "__init__", thread |-> 0, callback |-> "nocall",
                 write |-> "nocall", seq |-> 0, after_failed |-> FALSE]
        /\ ret = Returned(TRUE)
        /\ pulls = << >>
        /\ seen_incompatible = {}
        /\ agent = None
        /\ Is(NoManager)

\* What the reporter's threads and start/stop leave alone.
ReporterFrame ==
    << using_local_ollama, ollama_mode, ollama_host, models, current_model_id,
       ollama_available, model_discovery, model_blacklist, default_model_id,
       models_host, pulls, seen_incompatible, agent, persistence, state_file,
       now, last_write, callers, app, ret >>

\* start(): nothing when running; else the flag is set and a thread is
\* started.
Start ==
    /\ reporter.main.pc = "idle"
    /\ IF reporter.running
       THEN UNCHANGED reporter
       ELSE /\ Len(reporter.threads) < MaxThreads
            /\ reporter' =
                 [reporter EXCEPT
                    !.running = TRUE,
                    !.threads = Append(reporter.threads, Thread("check", 0)),
                    !.reporter_thread = Len(reporter.threads) + 1,
                    !.stop_returned = FALSE,
                    !.wrote_after_stop = FALSE]
    /\ op' = ReporterCall("start")
    /\ UNCHANGED status_file
    /\ UNCHANGED ReporterFrame

\* stop() up to the join: the flag is cleared; with a live thread the join
\* begins, else stop returns.
StopBegin ==
    /\ reporter.main.pc = "idle"
    /\ reporter' =
         IF ThreadAlive
         THEN [reporter EXCEPT !.running = FALSE,
                               !.main = Thread("joining", JOIN_TIMEOUT)]
         ELSE [reporter EXCEPT !.running = FALSE, !.stop_returned = TRUE]
    /\ op' = ReporterCall("stop")
    /\ UNCHANGED status_file
    /\ UNCHANGED ReporterFrame

\* join(timeout=3) is over: the thread has ended or the timeout has passed.
JoinOver ==
    /\ reporter.main.pc = "joining"
    /\ (~ThreadAlive \/ reporter.main.left = 0)

\* stop() returns.
StopReturn ==
    /\ JoinOver
    /\ reporter' = [reporter EXCEPT !.main = Thread("idle", 0),
                                    !.stop_returned = TRUE]
    /\ op' = ReporterCall("stop")
    /\ UNCHANGED status_file
    /\ UNCHANGED ReporterFrame

\* while self.running.
LoopCheck ==
    \E i \in DOMAIN reporter.threads :
        /\ reporter.threads[i].pc = "check"
        /\ reporter' =
             [reporter EXCEPT
                !.threads[i].pc = IF reporter.running THEN "update" ELSE "done"]
        /\ UNCHANGED << op, status_file >>
        /\ UNCHANGED ReporterFrame

\* self._update_status_file(), then time.sleep(self.auto_save_interval)
\* begins.
LoopUpdate ==
    \E i \in DOMAIN reporter.threads :
    \E c \in (IF reporter.status_callback THEN CallbackOutcomes ELSE {"nocall"}) :
    \E w \in {"ok", "raise"} :
        /\ reporter.threads[i].pc = "update"
        /\ status_file' = UpdateStatusFileResult(persistence.state, status_file,
                                                 reporter.status_callback, c, w)
        /\ reporter' =
             [reporter EXCEPT
                !.threads[i] =
                    Thread(AfterTick(c = "raise" \/ w = "raise"),
                           SleepAfter(UpdateStatusFileRaises(c, w),
                                      reporter.auto_save_interval)),
                !.wrote_after_stop =
                    reporter.wrote_after_stop \/ (reporter.stop_returned /\ w = "ok")]
        /\ op' = TickRecord(i, c, w, 1 - op.seq, Failed(op))
        /\ UNCHANGED ReporterFrame

\* time.sleep is over.
LoopWake ==
    \E i \in DOMAIN reporter.threads :
        /\ reporter.threads[i].pc = "sleep"
        /\ reporter.threads[i].left = 0
        /\ reporter' = [reporter EXCEPT !.threads[i].pc = "check"]
        /\ UNCHANGED << op, status_file >>
        /\ UNCHANGED ReporterFrame

\* A thread has a statement to execute now: time does not pass before it
\* has.
Urgent ==
    \/ JoinOver
    \/ \E i \in DOMAIN reporter.threads :
           \/ reporter.threads[i].pc \in {"check", "update"}
           \/ reporter.threads[i].pc = "sleep" /\ reporter.threads[i].left = 0

\* Someone sleeps or waits in a join.
Waiting ==
    \/ reporter.main.pc = "joining"
    \/ \E i \in DOMAIN reporter.threads : reporter.threads[i].pc = "sleep"

\* A second passes for the sleeping threads and the join.
Pass(t) == IF t.left > 0 THEN [t EXCEPT !.left = t.left - 1] ELSE t

Second ==
    /\ ~Urgent
    /\ Waiting
    /\ reporter' =
         [reporter EXCEPT
            !.main = Pass(reporter.main),
            !.threads = [i \in DOMAIN reporter.threads |->
                            Pass(reporter.threads[i])]]
    /\ UNCHANGED << op, status_file >>
    /\ UNCHANGED ReporterFrame

NextReporter ==
    \/ Start
    \/ StopBegin
    \/ StopReturn
    \/ LoopCheck
    \/ LoopUpdate
    \/ LoopWake
    \/ Second

SpecReporter == InitReporter /\ [][NextReporter]_vars

\* The scheduler runs every thread that can run, the join ends, and time
\* passes.
ReporterFairness ==
    /\ WF_vars(LoopCheck)
    /\ WF_vars(LoopUpdate)
    /\ WF_vars(LoopWake)
    /\ WF_vars(StopReturn)
    /\ WF_vars(Second)

SpecReporterFair == InitReporter /\ [][NextReporter]_vars /\ ReporterFairness

(* ---------------------------------------------------------------------- *)
(* The application: start-up, commands, queries, restart (app/main.py)    *)
(* ---------------------------------------------------------------------- *)

\* UI_PORT and OLLAMA_HOST of the environment, at their defaults.
UI_PORT == DEFAULT_UI_PORT

OLLAMA_HOST == DEFAULT_REMOTE_HOST

\* STATUS_INTERVAL of the environment, in seconds (60 by default): longer
\* than a command takes, shorter than the time the application is watched.
STATUS_INTERVAL == 1

\* The application is watched up to this time.
MaxAppTime == 4

\* Most commands and restarts the application is watched for.
MaxCommands == 2

\* Text2SQLAgent(ollama_host=OLLAMA_HOST, model_id=DEFAULT_MODEL).
AppConfig == [ollama_host |-> OLLAMA_HOST, model_id |-> AGENT_DEFAULT_MODEL]

\* What discovery returns to the running application: an exception, the
\* default model, or a model that is not the default one.
AppDiscoverOutcomes ==
    {[raised |-> TRUE, models |-> << >>],
     [raised |-> FALSE, models |-> << AGENT_DEFAULT_MODEL >>],
     [raised |-> FALSE, models |-> << CUSTOM_MODEL >>]}

\* What initialize_agent meets in the running application: every
\* Ollama(...) is built or every one raises; a model that is pulled is
\* pulled and listed.
AppInitializeOutcomes ==
    {e \in InitializeOutcomes :
        /\ e.pull = "ok" /\ e.refresh = "grown" /\ e.fb_pull = "ok"
        /\ e.ctor_fail # 1}

\* open(state_file, 'w') in the running application: the file is written,
\* or open raises.
AppWriteOutcomes == {"written", "open_raises"}

\* The state files found when the application is first started: none, or
\* the file of a session that ended in remote mode.
AppFiles ==
    {Missing,
     Object([config |-> [ollama_host |-> CONFIGURED_HOST,
                         ui_port |-> DEFAULT_UI_PORT + 1,
                         ollama_mode |-> "remote"],
             current_model |-> CUSTOM_MODEL,
             last_updated |-> 1])}

\* agent.models as update_model_info gets it: ModelInfo objects by name.
CatalogInfo(c) == [n \in Range(c) |-> ModelInfoOf(n)]

\* agent.databases and agent.current_db_name: the one database found.
AppDatabases ==
    [databases |-> ("shop" :> DatabaseInfoOf("shop")), current_db |-> "shop"]

\* The globals current_db, current_model and ollama_mode; commands counts
\* the commands and restarts so far.
Globals(a, commands) ==
    [current_db    |-> AppDatabases.current_db,
     current_model |-> a.current_model_id,
     ollama_mode   |-> a.ollama_mode,
     commands      |-> commands]

\* The record of a command: its name and argument, whether it succeeded,
\* what `which ollama` answered when the agent was constructed ("nocall"
\* when it was not run), whether the state file was written, and the
\* command before it.
AppRecord(name, arg, ok, which, write, after) ==
    [name |-> name, arg |-> arg, ok |-> ok, which |-> which, write |-> write,
     after |-> after]

\* The record of a command that follows the one recorded.
AppCall(name, arg, ok, write) ==
    AppRecord(name, arg, ok, "nocall", write, [name |-> op.name, ok |-> op.ok])

\* The write outcomes a call of save_state can draw at the present time.
WritesNow(p, force) ==
    IF Debounced(p, now, force) THEN {"nocall"} ELSE AppWriteOutcomes

\* The status file _update_status_file leaves in the application: the
\* callback of main.py returns and the file can be written.
Rendered(state) ==
    UpdateStatusFileResult(state, status_file, TRUE, "ok", "ok")

\* Lines 59-72: the StatusReporter is constructed at time t on file f with
\* STATUS_INTERVAL, then
\* update_database_info, update_model_info and update_config are called
\* with the agent's databases, catalog and model and the environment's host
\* and port; ws are the outcomes of the writes that are tried.
StartUpResult(a, f, t, ws) ==
    LET p0 == PersistenceConstruct(STATUS_INTERVAL, f, t)
        r1 == UpdateDatabaseInfoResult(p0, f, t, AppDatabases, ws[1])
        r2 == UpdateModelInfoResult(
                  r1.self, r1.file, t,
                  [models |-> CatalogInfo(a.models),
                   current_model |-> a.current_model_id], ws[2])
        r3 == UpdateConfigResult(
                  r2.self, r2.file, t,
                  [ollama_host |-> OLLAMA_HOST, ui_port |-> UI_PORT], ws[3])
    IN  [self    |-> r3.self,
         file    |-> r3.file,
         written |-> "written" \in {r1.write, r2.write, r3.write},
         loaded  |-> p0.state]

\* The module is executed at time t with state file f and status file sf
\* on disk: the agent is constructed (line 25), the globals are read from
\* it, and the status reporter is constructed and filled.  What the
\* process can be once it serves; a construction that raises ends the
\* process before that.
StartUps(f, sf, t, commands) ==
    {x \in
        {LET r == AgentConstruct(AppConfig, w, d, e)
             s == StartUpResult(r.self, f, t, ws)
         IN  [raised      |-> r.raised,
              agent       |-> [r.self EXCEPT !.text2sql_agent = r.self.ollama_model],
              app         |-> Globals(r.self, commands),
              persistence |-> s.self,
              state_file  |-> s.file,
              written     |-> s.written,
              status_file |-> UpdateStatusFileResult(s.self.state, sf,
                                                     TRUE, "ok", "ok"),
              which       |-> w,
              loaded      |-> s.loaded] :
            w \in WhichOutcomes, d \in AppDiscoverOutcomes,
            e \in AppInitializeOutcomes,
            ws \in [1..3 -> AppWriteOutcomes]} :
        ~x.raised}

\* What no command of the application touches.
AppFrame ==
    << using_local_ollama, ollama_mode, ollama_host, models, current_model_id,
       ollama_available, model_discovery, model_blacklist, default_model_id,
       models_host, pulls, seen_incompatible, reporter, callers, now >>

\* The application after its first start.
InitApp ==
    \E f \in AppFiles :
    \E s \in StartUps(f, NoStatusFile, StartTime, 0) :
        /\ agent = s.agent
        /\ app = s.app
        /\ persistence = s.persistence
        /\ state_file = s.state_file
        /\ last_write = IF s.written THEN [done |-> TRUE, at |-> StartTime]
                        ELSE NeverWritten
        /\ status_file = s.status_file
        /\ now = StartTime
        /\ op = AppRecord("start", None, TRUE, s.which,
                          IF s.written THEN "written" ELSE "open_raises",
                          [name |-> "none", ok |-> FALSE])
        /\ ret = Returned(TRUE)
        /\ pulls = << >>
        /\ seen_incompatible = {}
        /\ reporter = None
        /\ callers = << >>
        /\ Is(NoManager)

\* The process crashes and is started again: the files stay on disk, every
\* object is constructed anew.
Restart ==
    /\ app.commands < MaxCommands
    /\ \E s \in StartUps(state_file, status_file, now, app.commands + 1) :
        /\ agent' = s.agent
        /\ app' = s.app
        /\ persistence' = s.persistence
        /\ state_file' = s.state_file
        /\ last_write' = IF s.written THEN [done |-> TRUE, at |-> now]
                         ELSE last_write
        /\ status_file' = s.status_file
        /\ op' = AppRecord("start", None, TRUE, s.which,
                           IF s.written THEN "written" ELSE "open_raises",
                           [name |-> op.name, ok |-> op.ok])
        /\ ret' = Returned(TRUE)
    /\ UNCHANGED AppFrame

\* A call of the status reporter ended as r: the persisted state and the
\* state file are r's, and the status file is rendered from the state.
Stored(r) ==
    /\ persistence' = r.self
    /\ state_file' = r.file
    /\ last_write' = IF r.write = "written"
                     THEN [done |-> TRUE, at |-> now]
                     ELSE last_write
    /\ status_file' = Rendered(r.self.state)

\* A command that answers without changing anything.
Answers(name, arg) ==
    /\ op' = AppCall(name, arg, FALSE, "nocall")
    /\ ret' = Returned(FALSE)
    /\ app' = [app EXCEPT !.commands = @ + 1]
    /\ UNCHANGED << agent, persistence, state_file, last_write, status_file >>

\* /remote (lines 160-172): nothing in remote mode; else
\* switch_to_remote_mode, and on success the globals follow the agent and
\* update_config records the mode and the host.
CommandRemote ==
    /\ app.commands < MaxCommands
    /\ IF agent.ollama_mode = "remote"
       THEN Answers("/remote", None)
       ELSE \E d \in AppDiscoverOutcomes, e \in AppInitializeOutcomes :
            LET r == AgentSwitchToRemoteModeResult(agent, d, e)
            IN  /\ agent' = r.self
                /\ ret' = Returned(r.ok)
                /\ IF r.ok
                   THEN \E w \in WritesNow(persistence, FALSE) :
                        LET s == UpdateConfigResult(
                                     persistence, state_file, now,
                                     [ollama_mode |-> "remote",
                                      ollama_host |-> r.self.ollama_host], w)
                        IN  /\ app' = [app EXCEPT
                                         !.current_model = r.self.current_model_id,
                                         !.ollama_mode = "remote",
                                         !.commands = @ + 1]
                            /\ Stored(s)
                            /\ op' = AppCall("/remote", None, TRUE, s.write)
                   ELSE /\ op' = AppCall("/remote", None, FALSE, "nocall")
                        /\ app' = [app EXCEPT !.commands = @ + 1]
                        /\ UNCHANGED << persistence, state_file,
                                        last_write, status_file >>
    /\ UNCHANGED AppFrame

\* /local (lines 147-158): nothing in local mode; else
\* switch_to_local_mode, and on success the globals follow the agent and
\* update_config records the mode.
CommandLocal ==
    /\ app.commands < MaxCommands
    /\ IF agent.ollama_mode = "local"
       THEN Answers("/local", None)
       ELSE \E w \in WhichOutcomes :
            \E d1 \in (IF w = "found" THEN AppDiscoverOutcomes ELSE {NoDiscovery}) :
            \E po \in (IF w = "found" /\ ~d1.raised /\ d1.models = << >>
                       THEN PopenOutcomes ELSE {"nocall"}) :
            \E d2 \in (IF po = "started" THEN AppDiscoverOutcomes ELSE {NoDiscovery}) :
            \E p \in (IF w = "found" /\ LocalDiscovery(d1, po, d2) = << >>
                      THEN PullOutcomes ELSE {"nocall"}) :
            \E d3 \in (IF p = "ok" THEN AppDiscoverOutcomes ELSE {NoDiscovery}) :
            \E e \in AppInitializeOutcomes :
            LET r == AgentSwitchToLocalModeResult(agent, w, d1, po, d2, p, d3, e)
            IN  /\ agent' = r.self
                /\ ret' = Returned(r.ok)
                /\ IF r.ok
                   THEN \E sw \in WritesNow(persistence, FALSE) :
                        LET s == UpdateConfigResult(
                                     persistence, state_file, now,
                                     [ollama_mode |-> "local"], sw)
                        IN  /\ app' = [app EXCEPT
                                         !.current_model = r.self.current_model_id,
                                         !.ollama_mode = "local",
                                         !.commands = @ + 1]
                            /\ Stored(s)
                            /\ op' = AppCall("/local", None, TRUE, s.write)
                   ELSE /\ op' = AppCall("/local", None, FALSE, "nocall")
                        /\ app' = [app EXCEPT !.commands = @ + 1]
                        /\ UNCHANGED << persistence, state_file,
                                        last_write, status_file >>
    /\ UNCHANGED AppFrame

\* The statistics of a query: the question, the database and the model of
\* the globals, and the SQL text or the error.
QueryStats(kind) ==
    [type          |-> kind,
     last_question |-> "q",
     database      |-> app.current_db,
     model         |-> app.current_model]

\* A faulty recording that also clears the state's current model.
RecordQueryAlsoSetsModel(p, f, t, stats, w) ==
    SaveStateResult(
        [p EXCEPT !.state = Update(p.state, [last_query |-> stats,
                                             current_model |-> None])],
        f, t, TRUE, w)

\* Lines 370-371 and 387-388: state["last_query"] = query_stats, then
\* update_now(), which is save_state(force=True).
RecordQueryResult(p, f, t, stats, w) ==
    SaveStateResult(
        [p EXCEPT !.state = Update(p.state, [last_query |-> stats])],
        f, t, TRUE, w)

\* A question (lines 355-391): agent.request answers or raises, the
\* statistics are recorded, and the status is updated.
Query ==
    /\ app.commands < MaxCommands
    /\ \E kind \in {"sql_query", "error"} :
       \E w \in WritesNow(persistence, TRUE) :
          LET s == RecordQueryResult(persistence, state_file, now,
                                     QueryStats(kind), w)
          IN  /\ Stored(s)
              /\ op' = AppCall("query", kind, kind = "sql_query", s.write)
              /\ ret' = Returned(kind = "sql_query")
    /\ app' = [app EXCEPT !.commands = @ + 1]
    /\ UNCHANGED agent
    /\ UNCHANGED AppFrame

\* A second passes while the application waits for a command.
AppTick ==
    /\ now < MaxAppTime
    /\ now' = now + 1
    /\ UNCHANGED << using_local_ollama, ollama_mode, ollama_host, models,
                    current_model_id, ollama_available, model_discovery,
                    model_blacklist, default_model_id, models_host, pulls,
                    seen_incompatible, reporter, callers, agent, app,
                    persistence, state_file, last_write, status_file, op, ret >>

NextApp ==
    \/ Restart
    \/ CommandLocal
    \/ CommandRemote
    \/ Query
    \/ AppTick

SpecApp == InitApp /\ [][NextApp]_vars

(* ---------------------------------------------------------------------- *)
(* The request path and a reporter tick on the same state                 *)
(* (persistence.py, status_reporter.py; no lock in either)                *)
(* ---------------------------------------------------------------------- *)

\* A call of the request path in progress: its name, its argument and the
\* statement it is at.
Mutation(name, arg, pc) == [name |-> name, arg |-> arg, pc |-> pc]

\* A tick of the reporter thread: the statement of _update_status_file and
\* dump_status_summary it is at, and what it has read of the state so far.
Render(pc, seen, recovery) == [pc |-> pc, seen |-> seen, recovery |-> recovery]

\* The reporter thread sleeps.
Sleeping == Render("sleep", NoEntries, NoEntries)

\* Most calls of the request path that are followed.
MaxCalls == 2

\* The record of the last statement that ended a call or a tick, and the
\* calls of the request path that have ended.
RaceRecord(name, calls) == [name |-> name, calls |-> calls]

\* The entries of the summary that one statement of dump_status_summary
\* reads from the state.
Part(state, keys) == [k \in keys |-> Summary(state)[k]]

InitRace ==
    /\ persistence = PersistenceConstruct(STATUS_INTERVAL, Missing, StartTime)
    /\ state_file = Missing
    /\ now = StartTime
    /\ last_write = NeverWritten
    /\ status_file = NoStatusFile
    /\ reporter = Sleeping
    /\ callers = << >>
    /\ app = None
    /\ op = RaceRecord("__init__", 0)
    /\ ret = Returned(TRUE)
    /\ pulls = << >>
    /\ seen_incompatible = {}
    /\ agent = None
    /\ Is(NoManager)

\* What neither the request path nor the tick touches.
RaceFrame ==
    << using_local_ollama, ollama_mode, ollama_host, models, current_model_id,
       ollama_available, model_discovery, model_blacklist, default_model_id,
       models_host, pulls, seen_incompatible, agent, app, now, ret >>

\* The request path calls update_model_info, update_database_info or
\* update_config of the status reporter.
CallUpdate ==
    /\ callers = << >>
    /\ op.calls < MaxCalls
    /\ \/ \E a \in ModelInfoArgs :
            callers' = << Mutation("update_model_info", a, "models") >>
       \/ \E a \in DatabaseInfoArgs :
            callers' = << Mutation("update_database_info", a, "databases") >>
       \/ \E a \in ConfigUpdates :
            callers' = << Mutation("update_config", a, "config") >>
    /\ UNCHANGED << persistence, state_file, last_write, status_file, reporter,
                    op >>
    /\ UNCHANGED RaceFrame

\* One assignment of the call in progress:
\*   self.state["models"] = serializable_models
\*   self.state["current_model"] = current_model
\*   self.state["databases"] = serializable_dbs
\*   self.state["current_db"] = current_db
\*   self.state["config"].update(config)
Assign ==
    /\ callers # << >>
    /\ LET c == callers[1]
           put(entry, pc) ==
               /\ persistence' = [persistence EXCEPT
                                    !.state = Update(persistence.state, entry)]
               /\ callers' = << [c EXCEPT !.pc = pc] >>
       IN  CASE c.pc = "models" ->
                  put([models |-> SerializableModels(c.arg.models)], "current_model")
             [] c.pc = "current_model" ->
                  put([current_model |-> c.arg.current_model], "save")
             [] c.pc = "databases" ->
                  put([databases |-> SerializableDbs(c.arg.databases)], "current_db")
             [] c.pc = "current_db" ->
                  put([current_db |-> c.arg.current_db], "save")
             [] c.pc = "config" ->
                  put([config |-> Update(persistence.state["config"], c.arg)], "save")
             [] OTHER -> FALSE
    /\ UNCHANGED << state_file, last_write, status_file, reporter, op >>
    /\ UNCHANGED RaceFrame

\* save_state() of the call in progress.
SaveOfUpdate ==
    /\ At("save")
    /\ \E w \in WritesNow(persistence, FALSE) :
          LET r == SaveStateResult(persistence, state_file, now, FALSE, w)
          IN  /\ persistence' = r.self
              /\ state_file' = r.file
              /\ last_write' = IF r.write = "written"
                               THEN [done |-> TRUE, at |-> now]
                               ELSE last_write
    /\ callers' = << [callers[1] EXCEPT !.pc = "render"] >>
    /\ UNCHANGED << status_file, reporter, op >>
    /\ UNCHANGED RaceFrame

\* _update_status_file of the call in progress (status_reporter.py:130,
\* 140, 149): the request path renders the state it has just mutated.
RenderOfUpdate ==
    /\ At("render")
    /\ status_file' = Rendered(persistence.state)
    /\ op' = RaceRecord(callers[1].name, op.calls + 1)
    /\ callers' = << >>
    /\ UNCHANGED << persistence, state_file, last_write, reporter >>
    /\ UNCHANGED RaceFrame

\* The reporter thread wakes and begins a tick.
TickBegin ==
    /\ reporter.pc = "sleep"
    /\ reporter' = Render("head", NoEntries, NoEntries)
    /\ UNCHANGED << persistence, state_file, last_write, status_file, callers,
                    op >>
    /\ UNCHANGED RaceFrame

\* One statement of the tick's dump_status_summary (persistence.py:194-224)
\* or of the recovery instructions (status_reporter.py:97-98): the first
\* list reads last_updated, config and current_db; the first loop reads
\* databases; the second list reads current_model; the second loop reads
\* models; the recovery instructions read current_db and current_model.
TickRead ==
    /\ LET read(keys, pc) ==
               reporter' = [reporter EXCEPT
                              !.seen = Update(@, Part(persistence.state, keys)),
                              !.pc = pc]
       IN  CASE reporter.pc = "head" ->
                  read({"last_updated", "config", "current_db"}, "databases")
             [] reporter.pc = "databases" ->
                  read({"databases"}, "current_model")
             [] reporter.pc = "current_model" ->
                  read({"current_model"}, "models")
             [] reporter.pc = "models" ->
                  read({"models"}, "recovery")
             [] reporter.pc = "recovery" ->
                  reporter' = [reporter EXCEPT
                                 !.recovery = Recovery(persistence.state),
                                 !.pc = "write"]
             [] OTHER -> FALSE
    /\ UNCHANGED << persistence, state_file, last_write, status_file, callers,
                    op >>
    /\ UNCHANGED RaceFrame

\* The tick writes the status file (status_reporter.py:104-105) and the
\* thread goes to sleep.
TickWrite ==
    /\ reporter.pc = "write"
    /\ status_file' = StatusText(reporter.seen, AdditionalInfo(TRUE, "ok"),
                                 reporter.recovery)
    /\ reporter' = Sleeping
    /\ op' = RaceRecord("tick", op.calls)
    /\ UNCHANGED << persistence, state_file, last_write, callers >>
    /\ UNCHANGED RaceFrame

NextRace ==
    \/ CallUpdate
    \/ Assign
    \/ SaveOfUpdate
    \/ RenderOfUpdate
    \/ TickBegin
    \/ TickRead
    \/ TickWrite

SpecRace == InitRace /\ [][NextRace]_vars

(* ---------------------------------------------------------------------- *)
(* Mode switches and set_active_model from concurrent callers             *)
(* (agno_agent.py:386-639; neither the agent nor app/main.py has a lock)  *)
(* ---------------------------------------------------------------------- *)

\* The callers that call the agent, one call each: the chat handler and the
\* handlers of the two buttons run on the server's worker threads.
MaxCallers == 2

\* The methods called, with their argument.
SwitchCallsOfAgent ==
    {[name |-> "switch_to_local_mode", arg |-> None],
     [name |-> "switch_to_remote_mode", arg |-> None],
     [name |-> "set_active_model", arg |-> CUSTOM_MODEL]}

\* The locals a method saves for its revert: old_mode, old_host,
\* old_model_id, old_using_local.
Snapshot(a) ==
    [ollama_mode        |-> a.ollama_mode,
     ollama_host        |-> a.ollama_host,
     current_model_id   |-> a.current_model_id,
     using_local_ollama |-> a.using_local_ollama]

\* The locals before they are assigned.
NoSnapshot ==
    [ollama_mode |-> None, ollama_host |-> None, current_model_id |-> None,
     using_local_ollama |-> FALSE]

\* A caller: the method it runs, the statement it is at (begin: the checks
\* and the saving of the old settings; mutate: the assignments to the
\* agent; finish: the model choice, the initialisation and the revert), the
\* settings it saved, and whether it saved them while another caller's
\* assignments were in effect and not yet finished.
Caller(call, pc, old, mid) ==
    [name |-> call.name, arg |-> call.arg, pc |-> pc, old |-> old, mid |-> mid]

\* The record of a call that ended: the method, what it returned, whether
\* it reverted to its saved settings, and whether it had saved them in the
\* middle of another call.
SwitchRecord(name, ok, reverted, mid) ==
    [name |-> name, ok |-> ok, reverted |-> reverted, mid |-> mid]

\* Another caller than i is between its assignments and its end.
OtherInTheMiddle(i) ==
    \E j \in DOMAIN callers : j # i /\ callers[j].pc = "finish"

\* The agent after a construction that did not raise; no call yet.
InitCallers ==
    \E w \in WhichOutcomes, d \in AppDiscoverOutcomes :
    \E e \in AppInitializeOutcomes :
        LET r == AgentConstruct(AppConfig, w, d, e)
        IN  /\ ~r.raised
            /\ agent = [r.self EXCEPT !.text2sql_agent = r.self.ollama_model]
            /\ Is(NoManager)
            /\ op = SwitchRecord("__post_init__", TRUE, FALSE, FALSE)
            /\ ret = Returned(TRUE)
            /\ pulls = << >>
            /\ seen_incompatible = {}
            /\ NoPersistence
            /\ status_file = None
            /\ reporter = None
            /\ app = None
            /\ callers = << >>

\* What no statement of the three methods touches.
CallersFrame ==
    << using_local_ollama, ollama_mode, ollama_host, models, current_model_id,
       ollama_available, model_discovery, model_blacklist, default_model_id,
       models_host, pulls, seen_incompatible, Persisted, status_file,
       reporter, app >>

\* A handler calls a method of the agent.
Invoke ==
    /\ Len(callers) < MaxCallers
    /\ \E call \in SwitchCallsOfAgent :
          callers' = Append(callers, Caller(call, "begin", NoSnapshot, FALSE))
    /\ UNCHANGED << agent, op, ret >>
    /\ UNCHANGED CallersFrame

\* Caller i returns ok.
Ends(i, ok, reverted) ==
    /\ callers' = [callers EXCEPT ![i].pc = "done"]
    /\ op' = SwitchRecord(callers[i].name, ok, reverted, callers[i].mid)
    /\ ret' = Returned(ok)

\* Caller i saves the old settings and goes on to its assignments.
Saves(i) ==
    /\ callers' = [callers EXCEPT ![i].pc = "mutate",
                                  ![i].old = Snapshot(agent'),
                                  ![i].mid = OtherInTheMiddle(i)]
    /\ UNCHANGED << op, ret >>

\* The first statements of a method, up to the saving of the old settings.
\* switch_to_local_mode (472-494): True in local mode, False unless `which
\* ollama` finds it.  switch_to_remote_mode (585-590): True in remote mode.
\* set_active_model (403-434): the model is known, or found by
\* get_model_details, or pulled in local mode (the catalog grows), else
\* False.
Begin ==
    \E i \in DOMAIN callers :
        /\ callers[i].pc = "begin"
        /\ CASE callers[i].name = "switch_to_local_mode" ->
                  /\ agent' = agent
                  /\ IF agent.using_local_ollama
                     THEN Ends(i, TRUE, FALSE)
                     ELSE \E w \in WhichOutcomes :
                             IF w = "found" THEN Saves(i)
                             ELSE Ends(i, FALSE, FALSE)
             [] callers[i].name = "switch_to_remote_mode" ->
                  /\ agent' = agent
                  /\ IF ~agent.using_local_ollama
                     THEN Ends(i, TRUE, FALSE)
                     ELSE Saves(i)
             [] callers[i].name = "set_active_model" ->
                  \E show \in (IF callers[i].arg \in Range(agent.models)
                               THEN {"nocall"} ELSE DetailsOutcomes) :
                  \E p \in (IF show = "none" /\ agent.using_local_ollama
                            THEN PullOutcomes ELSE {"nocall"}) :
                  \E d \in (IF p = "ok" THEN {"grown", "raised"} ELSE {"nocall"}) :
                      LET known  == callers[i].arg \in Range(agent.models)
                                       \/ show = "found"
                          pulled == ~known /\ p = "ok" /\ d = "grown"
                      IN  /\ agent' = IF pulled
                                      THEN [agent EXCEPT !.models =
                                              Append(agent.models, callers[i].arg)]
                                      ELSE agent
                          /\ IF known \/ pulled
                             THEN Saves(i)
                             ELSE Ends(i, FALSE, FALSE)
        /\ UNCHANGED CallersFrame

\* The assignments of a method.  switch_to_local_mode (497-520): the flags,
\* the endpoint, the discovery and the catalog.  switch_to_remote_mode
\* (594-611): the same for the remote endpoint, and ollama_available.
\* set_active_model (435): the model id.
Mutate ==
    \E i \in DOMAIN callers :
        /\ callers[i].pc = "mutate"
        /\ CASE callers[i].name = "switch_to_local_mode" ->
                  \E d1 \in AppDiscoverOutcomes :
                  \E po \in (IF ~d1.raised /\ d1.models = << >>
                             THEN PopenOutcomes ELSE {"nocall"}) :
                  \E d2 \in (IF po = "started" THEN AppDiscoverOutcomes
                             ELSE {NoDiscovery}) :
                      agent' = [agent EXCEPT
                                  !.using_local_ollama = TRUE,
                                  !.ollama_mode = "local",
                                  !.ollama_host = LOCAL_HOST,
                                  !.model_discovery = LOCAL_HOST,
                                  !.models = LocalDiscovery(d1, po, d2),
                                  !.models_host = LOCAL_HOST]
             [] callers[i].name = "switch_to_remote_mode" ->
                  \E d \in AppDiscoverOutcomes :
                      agent' = [agent EXCEPT
                                  !.using_local_ollama = FALSE,
                                  !.ollama_mode = "remote",
                                  !.ollama_host = AgentRemoteHost(agent),
                                  !.model_discovery = AgentRemoteHost(agent),
                                  !.models = IF d.raised THEN << >> ELSE d.models,
                                  !.models_host = AgentRemoteHost(agent),
                                  !.ollama_available =
                                      (~d.raised /\ d.models # << >>)]
             [] callers[i].name = "set_active_model" ->
                  agent' = [agent EXCEPT !.current_model_id = callers[i].arg]
        /\ callers' = [callers EXCEPT ![i].pc = "finish"]
        /\ UNCHANGED << op, ret >>
        /\ UNCHANGED CallersFrame

\* The end of switch_to_local_mode (523-574) for a caller that saved old:
\* the saved model is kept when the catalog serves it, else the catalog's
\* first model is taken, else the small model is pulled; a pull that fails
\* and an initialize_agent that raises revert to the saved settings.
LocalFinish(a, old, p, d3, e) ==
    LET a2 == IF old.current_model_id \in Range(a.models)
              THEN a
              ELSE IF a.models # << >>
              THEN [a EXCEPT !.current_model_id = a.models[1]]
              ELSE [a EXCEPT !.current_model_id = small_model,
                             !.models = d3.models]
        r == InitializeAgentResult(a2, e)
    IN  IF /\ old.current_model_id \notin Range(a.models)
           /\ a.models = << >>
           /\ ~(p = "ok" /\ ~d3.raised)
        THEN [self |-> RevertLocal(a, old), ok |-> FALSE]
        ELSE IF r.raised
        THEN [self |-> RevertLocal(r.self, old), ok |-> FALSE]
        ELSE [self |-> r.self, ok |-> TRUE]

\* The end of switch_to_remote_mode (614-635) for a caller that saved old.
RemoteFinish(a, old, e) ==
    LET a2 == IF ~a.ollama_available \/ old.current_model_id \notin Range(a.models)
              THEN IF a.models # << >>
                   THEN [a EXCEPT !.current_model_id = a.models[1]]
                   ELSE [a EXCEPT !.current_model_id = REMOTE_COMMON_MODEL]
              ELSE [a EXCEPT !.current_model_id = old.current_model_id]
        r == InitializeAgentResult(a2, e)
    IN  IF r.raised
        THEN [self |-> [r.self EXCEPT
                          !.using_local_ollama = old.using_local_ollama,
                          !.ollama_mode = old.ollama_mode,
                          !.current_model_id = old.current_model_id],
              ok |-> FALSE]
        ELSE [self |-> r.self, ok |-> TRUE]

\* The end of set_active_model (437-468) for a caller that saved old: the
\* handle and the agent are rebuilt for the current model id; when that
\* raises the saved id is put back and a handle for it is built, unless
\* that raises too.
ModelFinish(a, old, model_name, fail, revert) ==
    LET new == Handle(model_name, BaseUrl(a))
    IN  IF fail = "none"
        THEN [self |-> [a EXCEPT !.ollama_model = new, !.text2sql_agent = new],
              ok |-> TRUE]
        ELSE [self |-> [a EXCEPT !.current_model_id = old.current_model_id,
                                 !.ollama_model =
                                     IF revert = "ok"
                                     THEN Handle(old.current_model_id, BaseUrl(a))
                                     ELSE IF fail = "handle" THEN @ ELSE new],
              ok |-> FALSE]

\* A method runs to its end from its assignments on.
Finish ==
    \E i \in DOMAIN callers :
        /\ callers[i].pc = "finish"
        /\ LET old == callers[i].old
               done(r) == /\ agent' = r.self
                          /\ Ends(i, r.ok, ~r.ok)
           IN  CASE callers[i].name = "switch_to_local_mode" ->
                      \E p \in (IF agent.models = << >>
                                THEN PullOutcomes ELSE {"nocall"}) :
                      \E d3 \in (IF p = "ok" THEN AppDiscoverOutcomes
                                 ELSE {NoDiscovery}) :
                      \E e \in AppInitializeOutcomes :
                          done(LocalFinish(agent, old, p, d3, e))
                 [] callers[i].name = "switch_to_remote_mode" ->
                      \E e \in AppInitializeOutcomes :
                          done(RemoteFinish(agent, old, e))
                 [] callers[i].name = "set_active_model" ->
                      \E fail \in ReinitOutcomes :
                      \E revert \in (IF fail = "none" THEN {"nocall"}
                                     ELSE RevertOutcomes) :
                          done(ModelFinish(agent, old, callers[i].arg, fail, revert))
        /\ UNCHANGED CallersFrame

NextCallers ==
    \/ Invoke
    \/ Begin
    \/ Mutate
    \/ Finish

SpecCallers == InitCallers /\ [][NextCallers]_vars

(* ---------------------------------------------------------------------- *)
(* The application: /model and /recover (app/main.py)                     *)
(* ---------------------------------------------------------------------- *)

\* What agent.set_active_model(model_name) can leave and return in the
\* application: the mode switches for "local" and "remote" in any case,
\* else the swap of the model, over the outcomes of the environment.
SetActiveModelResults(a, model_name) ==
    IF Lower(model_name) = "local"
    THEN {AgentSwitchToLocalModeResult(a, w, d1, po, d2, p, d3, e) :
              w \in WhichOutcomes, d1 \in AppDiscoverOutcomes,
              po \in PopenOutcomes, d2 \in AppDiscoverOutcomes,
              p \in PullOutcomes, d3 \in AppDiscoverOutcomes,
              e \in AppInitializeOutcomes}
    ELSE IF Lower(model_name) = "remote"
    THEN {AgentSwitchToRemoteModeResult(a, d, e) :
              d \in AppDiscoverOutcomes, e \in AppInitializeOutcomes}
    ELSE {SetActiveModelResult(a, model_name, show, p, d, fail, revert) :
              show \in DetailsOutcomes, p \in PullOutcomes,
              d \in {"grown", "raised"}, fail \in ReinitOutcomes,
              revert \in RevertOutcomes}

\* /model <name> (lines 108-118): set_active_model; on success the global
\* current_model becomes the name typed and update_model_info records the
\* agent's catalog with it; on failure only the answer is given.
CommandModel ==
    /\ app.commands < MaxCommands
    /\ \E model_name \in ModelNames :
       \E r \in SetActiveModelResults(agent, model_name) :
          /\ agent' = r.self
          /\ ret' = Returned(r.ok)
          /\ IF r.ok
             THEN \E w \in WritesNow(persistence, FALSE) :
                  LET s == UpdateModelInfoResult(
                               persistence, state_file, now,
                               [models |-> CatalogInfo(r.self.models),
                                current_model |-> model_name], w)
                  IN  /\ app' = [app EXCEPT !.current_model = model_name,
                                            !.commands = @ + 1]
                      /\ Stored(s)
                      /\ op' = AppCall("/model", model_name, TRUE, s.write)
             ELSE /\ op' = AppCall("/model", model_name, FALSE, "nocall")
                  /\ app' = [app EXCEPT !.commands = @ + 1]
                  /\ UNCHANGED << persistence, state_file, last_write,
                                  status_file >>
    /\ UNCHANGED AppFrame

\* Python truthiness of an entry of the state read with state.get.
Present(state, key) ==
    key \in DOMAIN state /\ state[key] # None /\ state[key] # ""

\* /recover (lines 293-318): load_state merges the state file into the
\* state; the database of the state is set when the agent has it; the
\* model of the state is handed to set_active_model and becomes the global
\* current_model whatever set_active_model returned.
CommandRecover ==
    /\ app.commands < MaxCommands
    /\ LET p1      == LoadStateResult(persistence, state_file)
           state   == p1.state
           db      == Present(state, "current_db")
                          /\ state["current_db"] \in DOMAIN AppDatabases.databases
           a1      == IF db THEN [agent EXCEPT !.text2sql_agent = agent.ollama_model]
                      ELSE agent
           db_name == IF db THEN state["current_db"] ELSE app.current_db
       IN  /\ persistence' = p1
           /\ IF Present(state, "current_model")
              THEN \E r \in SetActiveModelResults(a1, state["current_model"]) :
                      /\ agent' = r.self
                      /\ app' = [app EXCEPT
                                   !.current_db = db_name,
                                   !.current_model = state["current_model"],
                                   !.commands = @ + 1]
                      /\ op' = AppCall("/recover", state["current_model"],
                                       r.ok, "nocall")
                      /\ ret' = Returned(r.ok)
              ELSE /\ agent' = a1
                   /\ app' = [app EXCEPT !.current_db = db_name,
                                         !.commands = @ + 1]
                   /\ op' = AppCall("/recover", None, TRUE, "nocall")
                   /\ ret' = Returned(TRUE)
    /\ UNCHANGED << state_file, last_write, status_file >>
    /\ UNCHANGED AppFrame

NextFront ==
    \/ CommandModel
    \/ CommandRecover
    \/ CommandLocal
    \/ CommandRemote
    \/ AppTick

\* The application after its start, taking the commands that set the
\* model or the mode.
SpecFront == InitApp /\ [][NextFront]_vars

(* ---------------------------------------------------------------------- *)
(* Properties                                                             *)
(* ---------------------------------------------------------------------- *)

SwitchCalls == {"switch_to_local_mode", "switch_to_remote_mode"}

\* The fields a mode switch is about: mode flags, endpoint, active model,
\* catalog.
Selection ==
    << using_local_ollama, ollama_mode, ollama_host, current_model_id, models >>

\* C1: a mode switch that returns False leaves the mode flags, the endpoint,
\* the active model, the catalog and the blacklist as they were before the
\* call.
C1_FailedSwitchRestoresState ==
    [][(op'.name \in SwitchCalls /\ ~ret'.ok)
          => /\ Selection' = Selection
             /\ model_blacklist' = model_blacklist]_vars

\* The state a switch produces for its target mode: both mode flags, the
\* target's endpoint, and a catalog discovered from that endpoint.
ProducedForLocal ==
    /\ using_local_ollama' /\ ollama_mode' = "local"
    /\ ollama_host' = LOCAL_HOST
    /\ models_host' = LOCAL_HOST

ProducedForRemote ==
    /\ ~using_local_ollama' /\ ollama_mode' = "remote"
    /\ ollama_host' = RemoteHost(Self, op'.arg)
    /\ models_host' = ollama_host'

\* C2: after every mode-switch call, (mode, endpoint, active model, catalog)
\* is entirely the pre-call tuple or entirely a tuple produced for the
\* target mode, never a mixture.
C2_SwitchIsAllOrNothing ==
    [][(op'.name \in SwitchCalls)
          => \/ Selection' = Selection
             \/ (op'.name = "switch_to_local_mode" /\ ProducedForLocal)
             \/ (op'.name = "switch_to_remote_mode" /\ ProducedForRemote)]_vars

\* C3: whenever an operation changes the active model to a new value, that
\* value is not blacklisted at the moment of the assignment.
C3_ActivatedModelNotBlacklisted ==
    [][(current_model_id' # current_model_id)
          => current_model_id' \notin model_blacklist']_vars

\* The manager's own fields.
Manager ==
    << using_local_ollama, ollama_mode, ollama_host, models, current_model_id,
       ollama_available, model_discovery, model_blacklist, default_model_id >>

Idx == DOMAIN fallback_models

IndexOf(model_id) == CHOOSE i \in Idx : fallback_models[i] = model_id

Min(S) == CHOOSE x \in S : \A y \in S : x <= y

\* C4: get_best_model returns a blacklisted model only on exhaustion: the
\* preferred model is itself blacklisted (and is what is returned), the
\* catalog holds no model that is not blacklisted, and every fallback entry
\* is blacklisted or absent and (in local mode) failed to be acquired.
C4_BlacklistedOnlyOnExhaustion ==
    (op.name = "get_best_model" /\ ret.model_id \in model_blacklist)
        => /\ ret.model_id = current_model_id
           /\ \A m \in Range(models) : m \in model_blacklist
           /\ \A i \in Idx :
                \/ fallback_models[i] \in model_blacklist
                \/ /\ fallback_models[i] \notin Range(models)
                   /\ using_local_ollama
                        => \E k \in DOMAIN pulls :
                              /\ pulls[k].model_id = fallback_models[i]
                              /\ ~pulls[k].ok

\* The preferred model is accepted as it is: in the catalog, not blacklisted.
PreferredUsable ==
    /\ current_model_id \in Range(models)
    /\ current_model_id \notin model_blacklist

\* C5: if the preferred (current) model is in the catalog and not
\* blacklisted, get_best_model returns exactly it with is_fallback = False,
\* attempts no acquisition and changes no state.
C5_PreferredModelReturned ==
    [][(op'.name = "get_best_model" /\ PreferredUsable)
          => /\ ret'.model_id = current_model_id
             /\ ~ret'.is_fallback
             /\ pulls' = << >>
             /\ Manager' = Manager]_vars

C5_Witness ==
    /\ op.name = "get_best_model"
    /\ ~ret.is_fallback
    /\ ret.model_id = current_model_id
    /\ current_model_id \in Range(models)
    /\ Len(models) = 2 /\ models[2] = current_model_id
    /\ models[1] = fallback_models[1]

\* Fallback entry i is returned from the catalog as it was before the call.
FromCatalog(i) ==
    /\ fallback_models[i] \notin model_blacklist
    /\ fallback_models[i] \in Range(models)

\* Fallback entry i was acquired by this call: local mode, not blacklisted,
\* not in the catalog, and pull_model returned True for it.
AcquiredNow(i) ==
    /\ using_local_ollama
    /\ fallback_models[i] \notin model_blacklist
    /\ fallback_models[i] \notin Range(models)
    /\ \E k \in DOMAIN pulls' :
          pulls'[k].model_id = fallback_models[i] /\ pulls'[k].ok

\* Fallback entry j was not usable in this call: blacklisted, or absent from
\* the catalog and (in local mode) pulled without success.
UnusableNow(j) ==
    \/ fallback_models[j] \in model_blacklist
    \/ /\ fallback_models[j] \notin Range(models)
       /\ using_local_ollama
            => \E k \in DOMAIN pulls' :
                  pulls'[k].model_id = fallback_models[j] /\ ~pulls'[k].ok

\* C6: when the preferred model is absent or blacklisted, get_best_model
\* returns with is_fallback = True the first fallback entry, in the declared
\* order, that is not blacklisted and is in the catalog or (local mode) was
\* acquired by pull_model; every earlier entry was unusable.
C6_FirstUsableFallback ==
    [][(op'.name = "get_best_model" /\ ~PreferredUsable)
          => /\ ret'.is_fallback
             /\ \/ \A j \in Idx : UnusableNow(j)
                \/ \E i \in Idx :
                      /\ FromCatalog(i) \/ AcquiredNow(i)
                      /\ \A j \in 1..(i - 1) : UnusableNow(j)
                      /\ ret'.model_id = fallback_models[i]]_vars

C6_Witness ==
    /\ op.name = "get_best_model"
    /\ ret.is_fallback
    /\ Len(pulls) = 2
    /\ ~pulls[1].ok /\ pulls[1].model_id = fallback_models[2]
    /\ pulls[2].ok /\ pulls[2].model_id = fallback_models[3]
    /\ ret.model_id = fallback_models[3]
    /\ fallback_models[1] \in model_blacklist

\* C7: get_best_model always returns a selection and never raises; when
\* every fallback entry is blacklisted, absent or not acquirable, it returns
\* the preferred model, which it leaves unchanged.
C7_ExhaustionReturnsPreferred ==
    [][(op'.name = "get_best_model")
          => /\ ~ret'.raised
             /\ ret'.model_id \in Range(fallback_models) \cup {current_model_id}
             /\ current_model_id' = current_model_id
             /\ (\A j \in Idx : UnusableNow(j))
                   => ret'.model_id = current_model_id]_vars

C7_Witness ==
    /\ op.name = "get_best_model"
    /\ ret.is_fallback
    /\ ret.model_id = current_model_id
    /\ current_model_id = CUSTOM_MODEL
    /\ Len(pulls) = 4
    /\ \A k \in DOMAIN pulls : ~pulls[k].ok /\ pulls[k].how = "timeout"

\* The fallback entries after entry i that are not blacklisted.
LaterCandidates(i) ==
    {j \in Idx : j > i /\ fallback_models[j] \notin model_blacklist}

\* C8: in the fallback walk a pull is attempted only in local mode and only
\* for a fallback entry that is neither blacklisted nor in the catalog; after
\* a pull that fails the walk goes on with the next candidate (returning it
\* from the catalog or pulling it); and pull_model in remote mode returns
\* False and changes nothing.
C8_AcquisitionOnlyLocalAndRecoverable ==
    [][/\ (op'.name = "get_best_model")
            => \A k \in DOMAIN pulls' :
                  /\ using_local_ollama
                  /\ pulls'[k].model_id \in Range(fallback_models)
                  /\ pulls'[k].model_id \notin model_blacklist
                  /\ pulls'[k].model_id \notin Range(models)
                  /\ (~pulls'[k].ok /\ LaterCandidates(IndexOf(pulls'[k].model_id)) # {})
                        => LET nx == Min(LaterCandidates(IndexOf(pulls'[k].model_id)))
                           IN  \/ /\ fallback_models[nx] \in Range(models)
                                  /\ ret'.model_id = fallback_models[nx]
                               \/ /\ k < Len(pulls')
                                  /\ pulls'[k + 1].model_id = fallback_models[nx]
       /\ (op'.name = "pull_model" /\ ~using_local_ollama)
            => /\ ~ret'.ok
               /\ pulls' = << >>
               /\ Manager' = Manager]_vars

C8_Witness ==
    /\ op.name = "get_best_model"
    /\ using_local_ollama
    /\ Len(pulls) = 1
    /\ ~pulls[1].ok /\ pulls[1].how = "nonzero"
    /\ pulls[1].model_id = fallback_models[1]
    /\ ret.model_id = fallback_models[2]
    /\ fallback_models[2] \in Range(models)

\* C9: in either mode, if the probe of test_model ends with an error text
\* that holds the incompatibility signature, test_model returns failure and
\* the model is in the blacklist.
C9_IncompatibilityBlacklists ==
    (/\ op.name = "test_model"
     /\ op.probe = "done"
     /\ op.sig
     /\ (using_local_ollama \/ ~op.okcode))
        => /\ ~ret.ok
           /\ op.arg \in model_blacklist

\* C10: the blacklist only grows, and only test_model adds to it, on a
\* probe whose error text holds the incompatibility signature.
C10_BlacklistOnlyGrowsByTestModel ==
    [][/\ model_blacklist \subseteq model_blacklist'
       /\ (model_blacklist' # model_blacklist)
            => /\ op'.name = "test_model"
               /\ op'.probe = "done"
               /\ op'.sig
               /\ model_blacklist' = model_blacklist \cup {op'.arg}]_vars

C10_Witness ==
    /\ op.name = "test_model"
    /\ op.sig
    /\ op.arg \in model_blacklist
    /\ op.arg \notin DEFAULT_BLACKLIST
    /\ DEFAULT_BLACKLIST \subseteq model_blacklist

\* get_best_model has just returned with x as the preferred model and did
\* not skip x: it accepted x on the preferred-model path, or pulled x in the
\* fallback walk.
NotSkipped(x) ==
    /\ op.name = "get_best_model"
    /\ current_model_id = x
    /\ \/ (ret.model_id = x /\ ~ret.is_fallback)
       \/ \E k \in DOMAIN pulls : pulls[k].model_id = x

\* C11: once test_model(x) has returned an incompatibility failure, no later
\* get_best_model call with preferred model x accepts x on the
\* preferred-model path or takes x in the fallback walk.
C11_IncompatibleModelSkipped ==
    \A x \in seen_incompatible : ~NotSkipped(x)

\* C12: construction tries local first and falls through to remote when the
\* local backend is not found or serves nothing: a constructed manager in
\* local mode has a local catalog and is available, and a constructed manager
\* that is not available is in remote mode with the requested model as its
\* active model.
C12_ConstructionFallsThroughToRemote ==
    (op.name = "__init__")
        => /\ using_local_ollama => (ollama_available /\ models # << >>)
           /\ ~ollama_available
                => /\ ~using_local_ollama /\ ollama_mode = "remote"
                   /\ current_model_id = default_model_id

\* Scenario 1: the manager is in remote mode with a catalog that serves
\* something, none of it a fallback name, and the preferred model is not in
\* the catalog.
RemoteWithoutFallbacks ==
    /\ ~using_local_ollama
    /\ ollama_mode = "remote"
    /\ models # << >>
    /\ Range(models) \cap Range(fallback_models) = {}
    /\ current_model_id \notin Range(models)

\* C13 as stated: in scenario 1, get_best_model returns a model taken from
\* the fallback list, with is_fallback = True.
C13_ScenarioReturnsFallbackEntry ==
    (op.name = "get_best_model" /\ RemoteWithoutFallbacks)
        => /\ ret.is_fallback
           /\ ret.model_id \in Range(fallback_models)

\* C13 as amended: in scenario 1, get_best_model attempts no acquisition and
\* returns the preferred model itself, with is_fallback = True.
C13_ScenarioReturnsPreferred ==
    (op.name = "get_best_model" /\ RemoteWithoutFallbacks)
        => /\ ret.is_fallback
           /\ ret.model_id = current_model_id
           /\ ~ret.raised
           /\ pulls = << >>

C13_Witness ==
    /\ op.name = "get_best_model"
    /\ ~using_local_ollama
    /\ ollama_host = CONFIGURED_HOST
    /\ models = << "a", "b" >>
    /\ current_model_id = CUSTOM_MODEL
    /\ ret.model_id = CUSTOM_MODEL
    /\ ret.is_fallback

\* The call that has just returned is a switch to local mode made in local
\* mode.
LocalToLocal == op'.name = "switch_to_local_mode" /\ using_local_ollama

\* The call that has just returned is a switch to remote mode made in remote
\* mode.
RemoteToRemote == op'.name = "switch_to_remote_mode" /\ ~using_local_ollama

\* C14 as stated: a mode switch whose target is the current mode returns True
\* and changes no field of the manager, with or without an explicit endpoint
\* argument.
C14_SameModeSwitchIsNoOp ==
    [][(LocalToLocal \/ RemoteToRemote)
          => (ret'.ok /\ Manager' = Manager)]_vars

\* C14 as amended: switch_to_local_mode in local mode, and
\* switch_to_remote_mode in remote mode without an endpoint argument, return
\* True and change no field of the manager; switch_to_remote_mode in remote
\* mode with an endpoint argument moves the manager to that endpoint and
\* probes it.
C14_SameModeSwitchWithoutEndpointIsNoOp ==
    [][/\ (LocalToLocal \/ (RemoteToRemote /\ op'.arg = None))
            => (ret'.ok /\ Manager' = Manager)
       /\ (RemoteToRemote /\ op'.arg # None)
            => /\ ollama_host' = op'.arg
               /\ model_discovery' = op'.arg
               /\ models_host' = op'.arg
               /\ ret'.ok = ollama_available']_vars

C14_Witness ==
    /\ op.name = "switch_to_remote_mode"
    /\ op.arg = None
    /\ ret.ok
    /\ ~using_local_ollama
    /\ ~ollama_available

\* What a caller observes of a manager s: mode, endpoint, active model,
\* catalog, availability.
Observable(s) ==
    << s.using_local_ollama, s.ollama_mode, s.ollama_host, s.current_model_id,
       s.models, s.ollama_available >>

\* switch_to_remote_mode called twice in a row from the manager as it is,
\* both calls meeting the same endpoint behaviour, leaves what one call
\* leaves and returns what one call returns.
RemoteTwiceAsOnce ==
    \A host \in HostArgs :
    \A d \in DiscoverOutcomes :
        LET once  == SwitchToRemoteModeResult(Self, host, d)
            twice == SwitchToRemoteModeResult(once.self, host, d)
        IN  /\ Observable(twice.self) = Observable(once.self)
            /\ twice.ok = once.ok

\* The same for switch_to_local_mode.
LocalTwiceAsOnce ==
    \A w \in WhichOutcomes :
    \A d1 \in (IF w = "found" THEN DiscoverOutcomes ELSE {NoDiscovery}) :
    \A po \in (IF w = "found" /\ ~d1.raised /\ d1.models = << >>
               THEN PopenOutcomes ELSE {"nocall"}) :
    \A d2 \in (IF po = "started" THEN DiscoverOutcomes ELSE {NoDiscovery}) :
    \A p \in (IF w = "found" /\ LocalDiscovery(d1, po, d2) = << >>
              THEN PullOutcomes ELSE {"nocall"}) :
    \A d3 \in (IF p = "ok" THEN DiscoverOutcomes ELSE {NoDiscovery}) :
        LET once  == SwitchToLocalModeResult(Self, w, d1, po, d2, p, d3)
            twice == SwitchToLocalModeResult(once.self, w, d1, po, d2, p, d3)
        IN  /\ Observable(twice.self) = Observable(once.self)
            /\ twice.ok = once.ok

\* C15: from every state the manager is in between calls, and with an
\* unchanged environment, a mode switch called twice in a row with the same
\* target leaves the same observable state and returns the same result as
\* the switch called once.
C15_SwitchTwiceAsOnce ==
    Idle => (RemoteTwiceAsOnce /\ LocalTwiceAsOnce)

\* C16: whenever set_active_model returns False, the agent's active model id
\* and its model handle are the ones it had before the call.
C16_FailedSetActiveModelRestores ==
    [][(op'.name = "set_active_model" /\ ~ret'.ok)
          => /\ agent'.current_model_id = agent.current_model_id
             /\ agent'.ollama_model = agent.ollama_model]_vars

\* C17: in every state the manager is left in, a catalog that holds models
\* was discovered from the endpoint of the active mode, which is the
\* manager's current endpoint; no state holds models of another endpoint.
C17_CatalogFromActiveEndpoint ==
    models # << >> => models_host = ollama_host

\* The calls that probe the endpoint or refresh the catalog.
ProbeCalls == {"__init__", "check_ollama_availability", "get_model_list"}

\* C18: after a probe or a catalog refresh whose discovery of the endpoint
\* failed, nothing was raised to the caller, the catalog is empty and the
\* manager does not report the backend available.
C18_FailedDiscoveryLeavesUnavailable ==
    (op.name \in ProbeCalls /\ op.probe \in FailedAnswers)
        => /\ ~ret.raised
           /\ models = << >>
           /\ ~ollama_available

\* The entries of the file's "config" map, none when the file has no such
\* map.
FileConfig ==
    IF "config" \in DOMAIN state_file.data
    THEN JsonLoad(state_file.data)["config"]
    ELSE NoEntries

\* C19: the state a constructed StatePersistence holds is the file merged
\* over the defaults: every key of the file has the file's value, every key
\* the file lacks, inside the configuration map too, has its default, and
\* with a missing or corrupt file the state is the defaults; nothing is
\* raised.
C19_LoadMergesFileOverDefaults ==
    op.name = "__init__"
        => LET d == DefaultState(StartTime)
               f == JsonLoad(state_file.data)
               s == persistence.state
           IN  /\ ~ret.raised
               /\ state_file.kind # "object" => s = d
               /\ state_file.kind = "object" =>
                    /\ \A k \in (DOMAIN f) \ {"config"} :
                           k \in DOMAIN s /\ s[k] = f[k]
                    /\ \A c \in DOMAIN FileConfig :
                           c \in DOMAIN s.config /\ s.config[c] = FileConfig[c]
                    /\ \A k \in (DOMAIN d) \ (DOMAIN f) : s[k] = d[k]
                    /\ \A c \in (DOMAIN d.config) \ (DOMAIN FileConfig) :
                           c \in DOMAIN s.config /\ s.config[c] = d.config[c]

\* The calls that end in save_state.
SaveCalls == {"save_state", "update_config"}

\* At least auto_save_interval has passed since the last write of the file
\* that completed; true when none has completed yet.
Elapsed ==
    ~last_write.done \/ now - last_write.at >= persistence.auto_save_interval

\* C20: save_state tries to write the file exactly when it is forced or at
\* least auto_save_interval has passed since the last write that completed;
\* it returns True exactly when the write completed, the file then holding
\* the state; and a write that did not complete leaves last_save_time as it
\* was.
C20_SaveStateDebounce ==
    [][(op'.name \in SaveCalls /\ now' = now)
          => /\ (op'.write # "nocall") <=> (op'.force \/ Elapsed)
             /\ ret'.ok <=> (op'.write = "written")
             /\ op'.write = "written"
                    => /\ state_file' = Object(JsonDump(persistence'.state))
                       /\ persistence'.last_save_time = now
             /\ op'.write # "written"
                    => persistence'.last_save_time = persistence.last_save_time
             /\ op'.write \in {"nocall", "open_raises"}
                    => state_file' = state_file]_vars

\* C20 witness: a save_state that was not forced has been skipped after time
\* passed since a completed write, but less than the interval.
C20_Witness ==
    /\ op.name = "save_state" /\ ~op.force /\ op.write = "nocall"
    /\ ~ret.ok
    /\ last_write.done
    /\ now > last_write.at
    /\ now - last_write.at < persistence.auto_save_interval

\* The sections of the state a restart is to bring back.
Sections == {"current_model", "current_db", "models", "databases", "config"}

\* The state a fresh StatePersistence constructed on the file now holds.
FreshState ==
    PersistenceConstruct(persistence.auto_save_interval, state_file, now).state

C22_ReaderSeesWholeFile ==
    (op.name \in {"read", "__init__"}) => op.write \notin {"empty", "partial"}

\* C23: once stop() has returned, every reporter loop has finished and no
\* loop has written the status file since.
C23_StopEndsTheLoop ==
    reporter.stop_returned
        => /\ Alive = {}
           /\ ~reporter.wrote_after_stop

\* C24: a tick in which the callback or the write raised does not end the
\* loop: while the reporter stays running, another tick follows it.
C24_FailedTickIsFollowedByATick ==
    \A b \in {0, 1} :
        (Failed(op) /\ op.seq = b /\ reporter.running)
            ~> (op.seq # b \/ ~reporter.running)

\* C24 witness: a tick has been performed after a tick in which something
\* raised, by the same loop of a running reporter.
C24_Witness ==
    /\ op.name = "tick" /\ op.after_failed
    /\ reporter.running
    /\ Len(reporter.threads) = 1

\* C25: at any time at most one reporter loop is alive while the reporter
\* is running, whatever start() and stop() calls were made.
C25_AtMostOneLoop ==
    reporter.running => Cardinality(Alive) <= 1

\* C26: after a tick of the loop in which the status callback raised and
\* the file could be written, the status file holds the summary of the
\* persisted state, the text of the error in the supplementary section, and
\* the recovery instructions.
C26_CallbackErrorIsRenderedInline ==
    (op.name = "tick" /\ op.callback = "raise" /\ op.write = "ok")
        => /\ status_file.kind = "text"
           /\ status_file.summary = Summary(persistence.state)
           /\ status_file.additional =
                  "## Additional Information Error getting additional status info: <e>"
           /\ status_file.recovery = Recovery(persistence.state)

\* C26 witness: the callback has raised in a tick and the file was written.
C26_Witness ==
    /\ op.name = "tick" /\ op.callback = "raise" /\ op.write = "ok"
    /\ status_file.kind = "text"

\* The sections of the persisted state a query does not record into.
OtherSections(state) == DOMAIN state \ {"last_query", "last_updated"}

\* C27: recording a query outcome, success or error, changes only the
\* last-query record of the persisted state and its timestamp: the agent
\* (mode, endpoint, active model, catalog), the manager's fields and
\* blacklist, the globals, and every other section of the persisted state
\* (current_model, current_db, models, databases, config, version) are as
\* they were.
C27_QueryRecordsOnlyLastQuery ==
    [][(op'.name = "query" /\ app'.commands = app.commands + 1)
          => /\ agent' = agent
             /\ UNCHANGED Self
             /\ app'.current_model = app.current_model
             /\ app'.current_db = app.current_db
             /\ app'.ollama_mode = app.ollama_mode
             /\ OtherSections(persistence'.state) = OtherSections(persistence.state)
             /\ \A k \in OtherSections(persistence.state) :
                   persistence'.state[k] = persistence.state[k]
             /\ persistence'.state["last_query"].type = op'.arg]_vars

\* A query was recorded and written after a successful switch to local mode.
C27_Witness ==
    /\ op.name = "query"
    /\ op.write = "written"
    /\ op.after = [name |-> "/local", ok |-> TRUE]
    /\ "ollama_mode" \in DOMAIN persistence.state["config"]
    /\ persistence.state["last_query"].type = "error"

\* The command before the last start was a switch to remote mode that
\* succeeded: the process crashed right after it.
CrashedAfterRemoteSwitch ==
    op.name = "start" /\ op.after = [name |-> "/remote", ok |-> TRUE]

\* C28: when a switch to remote mode succeeds and the process crashes right
\* after it, the restarted process loads a state that records remote as the
\* mode, and it is in remote mode without having probed for a local
\* backend.
C28_RestartRestoresRemote ==
    CrashedAfterRemoteSwitch
        => /\ "ollama_mode" \in DOMAIN persistence.state["config"]
           /\ persistence.state["config"]["ollama_mode"] = "remote"
           /\ agent.ollama_mode = "remote"
           /\ op.which = "nocall"

\* The model sections a whole state can have: those of construction, or
\* those one update_model_info stores.
WholeModelSections ==
    {[models |-> {}, current_model |-> None]}
        \cup {[models |-> DOMAIN a.models, current_model |-> a.current_model] :
                a \in ModelInfoArgs}

\* C29: a reporter tick that runs while the request path mutates the
\* persisted state renders the state as it was before or after a whole
\* mutation: the status file of a tick never shows the models of one
\* update_model_info with the current model of another state.
C29_TickRendersWholeState ==
    (op.name = "tick")
        => [models |-> status_file.summary.models,
            current_model |-> status_file.summary.current_model]
               \in WholeModelSections

\* C30: mode switches and set_active_model are serialized: no call that
\* reverts puts back settings it saved while another call's assignments
\* were in effect and not yet finished.
C30_RevertRestoresNoMidSnapshot ==
    (op.name \in {"switch_to_local_mode", "switch_to_remote_mode",
                  "set_active_model"} /\ op.reverted)
        => ~op.mid

\* C31: after a tick of the loop in which the status file could be
\* written, both artifacts hold the persisted state: the state file is the
\* JSON of the state and the status file is its summary and recovery
\* instructions.
C31_TickWritesBothArtifacts ==
    (op.name = "tick" /\ op.write = "ok")
        => /\ status_file.kind = "text"
           /\ status_file.summary = Summary(persistence.state)
           /\ status_file.recovery = Recovery(persistence.state)
           /\ state_file = Object(JsonDump(persistence.state))

\* C32: a tick in which the status file could not be written is followed
\* by the back-off sleep of the loop's error handler, not by the sleep of
\* the regular interval.
C32_FailedTickBacksOff ==
    [][(op'.name = "tick" /\ op'.seq # op.seq /\ op'.write = "raise")
          => /\ reporter'.threads[op'.thread].pc = "sleep"
             /\ reporter'.threads[op'.thread].left = ERROR_SLEEP]_vars

\* A mode-switch call returned True and the mode is now the other one.
SwitchedMode ==
    /\ op'.name \in SwitchCalls
    /\ ret'.ok
    /\ using_local_ollama' # using_local_ollama

\* The replacements a switch may choose for the active model: the first
\* entry of the new catalog, the small model pulled in local mode, or the
\* configured default in remote mode.
Replacements ==
    (IF models' # << >> THEN {models'[1]} ELSE {})
        \cup (IF using_local_ollama' THEN {small_model} ELSE {default_model_id})

\* C33: after a mode switch that returned True, the active model is the
\* one active before the call when the catalog of the new mode lists it,
\* and otherwise one of the replacements.
C33_SwitchKeepsListedModel ==
    [][SwitchedMode
          => IF current_model_id \in Range(models')
             THEN current_model_id' = current_model_id
             ELSE current_model_id' \in Replacements]_vars

\* C34: in every state after a manager operation has returned, the mode is
\* one of local and remote, using_local_ollama is set exactly when
\* ollama_mode is "local", and in local mode the endpoint is the local one.
C34_ModeFieldsAgree ==
    /\ ollama_mode \in {"local", "remote"}
    /\ using_local_ollama <=> ollama_mode = "local"
    /\ ollama_mode = "local" => ollama_host = LOCAL_HOST

\* C34 witness: switch_to_local_mode has failed after its mutation, and
\* its revert has put the manager back in remote mode on the configured
\* endpoint.
C34_Witness ==
    /\ op.name = "switch_to_local_mode" /\ ~ret.ok /\ pulls # << >>
    /\ ~using_local_ollama /\ ollama_mode = "remote"
    /\ ollama_host = CONFIGURED_HOST

\* C35: in every state after a manager operation has returned, a failed
\* and rolled-back mode switch included, the discovery object queries the
\* endpoint the manager reports: model_discovery's host is ollama_host.
C35_DiscoveryFollowsHost ==
    model_discovery = ollama_host

\* C36: in every state after the construction, a mode switch or
\* set_active_model of the agent has returned, the model handle is bound to
\* the current model: ollama_model.id is current_model_id.
C36_HandleBoundToCurrentModel ==
    agent.ollama_model.id = agent.current_model_id

\* C37: when a mode switch has returned True and changed the mode, the
\* active model is listed in the catalog the manager holds at the return.
C37_SwitchedModelIsListed ==
    [][SwitchedMode => current_model_id' \in Range(models')]_vars

\* The front-end commands that set the model or the mode.
ModelCommands == {"/model", "/local", "/remote", "/recover"}

\* C38: after every front-end command that sets the model or the mode, the
\* global current_model and the current_model of the persisted state are
\* the agent's current_model_id, and a command whose set_active_model or
\* switch returned False has left the global as it was.
C38_MirrorFollowsAgent ==
    [][(op'.name \in ModelCommands /\ app'.commands = app.commands + 1)
          => /\ app'.current_model = agent'.current_model_id
             /\ persistence'.state["current_model"] = agent'.current_model_id
             /\ ~ret'.ok => app'.current_model = app.current_model]_vars

\* config.ollama_host of the manager: the configuration is never assigned
\* after __init__, and the two configurations of Configs differ in their
\* default model, so the configured host is read off default_model_id.
ConfigOllamaHost ==
    IF default_model_id = CUSTOM_MODEL THEN CONFIGURED_HOST ELSE LOCAL_HOST

\* C39: switch_to_remote_mode() without a host, called in local mode, puts
\* the manager on the remote endpoint it was configured with when there is
\* one, and on the default remote endpoint only when there is none.
C39_RemoteSwitchUsesConfiguredHost ==
    [][(op'.name = "switch_to_remote_mode" /\ op'.arg = None
            /\ using_local_ollama)
          => ollama_host' = IF ConfigOllamaHost # LOCAL_HOST
                            THEN ConfigOllamaHost
                            ELSE DEFAULT_REMOTE_HOST]_vars

====
